---- MODULE Spec2Model ----
(***************************************************************************)
(* A model of the oauth2 client core (src/src/lib.rs): the client          *)
(* configuration and its builder methods, the authorization URL builder,   *)
(* the token request builder with its execution over the HTTP transport,   *)
(* and the deserialization of token and error responses.                   *)
(*                                                                         *)
(* Strings that the code inspects character by character (form encoding,   *)
(* case folding, joining and splitting) are sequences of one-character     *)
(* strings; fixed messages and header names are plain strings.             *)
(***************************************************************************)
EXTENDS Integers, Sequences, FiniteSets, TLC

(***************************************************************************)
(* Bounds of the model.                                                    *)
(***************************************************************************)
\* the longest scope list a configuration is given
MaxScopes == 2
\* the most caller-supplied param() calls on one request
MaxParams == 1
\* the largest byte length a caller asks a PKCE verifier of
MaxNumBytes == 130

(***************************************************************************)
(* Option<T>.                                                              *)
(***************************************************************************)
None == [some |-> FALSE, v |-> <<>>]
Some(x) == [some |-> TRUE, v |-> x]

(***************************************************************************)
(* Characters.                                                             *)
(***************************************************************************)
LowerChars == <<"a", "b", "c", "d", "e", "f", "g", "h", "i", "j", "k", "l", "m", "n", "o", "p", "q", "r", "s", "t", "u", "v", "w", "x", "y", "z">>
UpperChars == <<"A", "B", "C", "D", "E", "F", "G", "H", "I", "J", "K", "L", "M", "N", "O", "P", "Q", "R", "S", "T", "U", "V", "W", "X", "Y", "Z">>
DigitChars == <<"0", "1", "2", "3", "4", "5", "6", "7", "8", "9">>

Range(f) == {f[i] : i \in DOMAIN f}

\* str::to_lowercase on the ASCII range
to_lowercase_char(c) ==
    IF c \in Range(UpperChars)
    THEN LowerChars[CHOOSE i \in DOMAIN UpperChars : UpperChars[i] = c]
    ELSE c

to_lowercase(s) == [i \in DOMAIN s |-> to_lowercase_char(s[i])]

\* the two hexadecimal digits of the ASCII code of a character that the
\* form encoding escapes
HexOf(c) ==
    CASE c = ":" -> <<"3", "A">>
      [] c = "/" -> <<"2", "F">>
      [] c = "&" -> <<"2", "6">>
      [] c = "=" -> <<"3", "D">>
      [] c = "+" -> <<"2", "B">>
      [] c = "%" -> <<"2", "5">>
      [] c = "?" -> <<"3", "F">>
      [] c = "#" -> <<"2", "3">>

\* the bytes url::form_urlencoded::byte_serialize leaves as they are
UnreservedChars ==
    Range(LowerChars) \cup Range(UpperChars) \cup Range(DigitChars)
        \cup {"*", "-", ".", "_"}

\* url::form_urlencoded::byte_serialize, one byte
byte_serialize_char(c) ==
    IF c \in UnreservedChars
    THEN <<c>>
    ELSE IF c = " " THEN <<"+">>
    ELSE <<"%">> \o HexOf(c)

RECURSIVE byte_serialize(_)
byte_serialize(s) ==
    IF s = <<>> THEN <<>>
    ELSE byte_serialize_char(Head(s)) \o byte_serialize(Tail(s))

\* fn url_encode
url_encode(s) == byte_serialize(s)

\* [String]::join(" ") and its like
RECURSIVE join(_, _)
join(parts, sep) ==
    IF parts = <<>> THEN <<>>
    ELSE IF Len(parts) = 1 THEN parts[1]
    ELSE parts[1] \o sep \o join(Tail(parts), sep)

\* str::split(c): the pieces between the occurrences of c, empty ones kept
RECURSIVE split(_, _)
split(s, c) ==
    IF \A i \in DOMAIN s : s[i] # c THEN <<s>>
    ELSE LET i == CHOOSE j \in DOMAIN s :
                     s[j] = c /\ \A k \in 1..(j - 1) : s[k] # c
         IN  <<SubSeq(s, 1, i - 1)>> \o split(SubSeq(s, i + 1, Len(s)), c)

\* form_urlencoded::Serializer::append_pair: the pair, both halves encoded,
\* after the pairs already serialized
append_pair(pairs, key, value) ==
    Append(pairs, <<byte_serialize(key), byte_serialize(value)>>)

RECURSIVE append_pairs(_, _)
append_pairs(pairs, kvs) ==
    IF kvs = <<>> THEN pairs
    ELSE append_pairs(append_pair(pairs, kvs[1][1], kvs[1][2]), Tail(kvs))

\* Serializer::finish: the pairs as key=value, joined by &
form_finish(pairs) ==
    join([i \in DOMAIN pairs |-> pairs[i][1] \o <<"=">> \o pairs[i][2]], <<"&">>)

(***************************************************************************)
(* The values of the protocol.  A Url is its text up to the query and the  *)
(* query's pairs, as the url crate serializes them: the text of a parsed   *)
(* http URL has a path, / when none was written (http://token/).           *)
(***************************************************************************)
Url(base, pairs) == [base |-> base, pairs |-> pairs]

\* Url::as_str, Url::to_string
url_as_str(u) ==
    IF u.pairs = <<>> THEN u.base ELSE u.base \o <<"?">> \o form_finish(u.pairs)

\* the parameter names and fixed values the code writes
k_response_type == <<"r", "e", "s", "p", "o", "n", "s", "e", "_", "t", "y", "p", "e">>
k_client_id == <<"c", "l", "i", "e", "n", "t", "_", "i", "d">>
k_client_secret == <<"c", "l", "i", "e", "n", "t", "_", "s", "e", "c", "r", "e", "t">>
k_redirect_uri == <<"r", "e", "d", "i", "r", "e", "c", "t", "_", "u", "r", "i">>
k_scope == <<"s", "c", "o", "p", "e">>
k_scopes == <<"s", "c", "o", "p", "e", "s">>
k_state == <<"s", "t", "a", "t", "e">>
k_grant_type == <<"g", "r", "a", "n", "t", "_", "t", "y", "p", "e">>
k_code == <<"c", "o", "d", "e">>
k_username == <<"u", "s", "e", "r", "n", "a", "m", "e">>
k_password == <<"p", "a", "s", "s", "w", "o", "r", "d">>
k_refresh_token == <<"r", "e", "f", "r", "e", "s", "h", "_", "t", "o", "k", "e", "n">>
k_code_challenge_method == <<"c", "o", "d", "e", "_", "c", "h", "a", "l", "l", "e", "n", "g", "e", "_", "m", "e", "t", "h", "o", "d">>
k_code_challenge == <<"c", "o", "d", "e", "_", "c", "h", "a", "l", "l", "e", "n", "g", "e">>
v_token == <<"t", "o", "k", "e", "n">>
v_authorization_code == <<"a", "u", "t", "h", "o", "r", "i", "z", "a", "t", "i", "o", "n", "_", "c", "o", "d", "e">>
v_client_credentials == <<"c", "l", "i", "e", "n", "t", "_", "c", "r", "e", "d", "e", "n", "t", "i", "a", "l", "s">>
v_S256 == <<"S", "2", "5", "6">>
CONTENT_TYPE_JSON == "application/json"
CONTENT_TYPE_FORM == "application/x-www-form-urlencoded"

\* enum AuthType
AuthType == {"RequestBody", "BasicAuth"}

(***************************************************************************)
(* The inputs the callers of the model draw from.                          *)
(***************************************************************************)
ClientIds == {<<"c", " ", "d">>}
ClientSecrets == {<<"s", "&", "c">>}
\* the last has a query of its own that holds a state parameter
AuthUrls == {Url(<<"h", "t", "t", "p", ":", "/", "/", "a", "u", "t", "h", "o", "r", "i", "z", "e", "/">>, <<>>),
             Url(<<"h", "t", "t", "p", ":", "/", "/", "a", "u", "t", "h", "o", "r", "i", "z", "e", "/", "a">>, <<<<<<"x">>, <<"y">>>>>>),
             Url(<<"h", "t", "t", "p", ":", "/", "/", "a", "u", "t", "h", "o", "r", "i", "z", "e", "/">>, <<<<<<"s", "t", "a", "t", "e">>, <<"z">>>>>>)}
TokenUrls == {Url(<<"h", "t", "t", "p", ":", "/", "/", "t", "o", "k", "e", "n", "/">>, <<>>)}
RedirectUrls == {Url(<<"h", "t", "t", "p", ":", "/", "/", "r", "e", "d", "i", "r", "e", "c", "t", "/", "h", "e", "r", "e">>, <<>>)}
ScopeValues == {<<"r", "e", "a", "d">>, <<"w", "r", "i", "t", "e">>, <<>>}
CsrfTokens == {<<"x", "y", "z">>, <<"a", "+", "b">>}
Verifiers == {<<"v", "e", "r">>}
AuthorizationCodes == {<<"a", "/", "b">>}
Usernames == {<<"u", "s", "e", "r">>}
Passwords == {<<"p", "a", "s", "s">>}
RefreshTokens == {<<"r", "t">>}
\* what a caller passes to param()
ParamPairs == {<<<<"c", "o", "d", "e", "_", "v", "e", "r", "i", "f", "i", "e", "r">>, <<"v", "e", "r">>>>, <<<<"c", "l", "i", "e", "n", "t", "_", "i", "d">>, <<"e", "v", "e">>>>}

(***************************************************************************)
(* Client: the configuration.                                              *)
(***************************************************************************)
\* Client::new
Client_new(client_id, client_secret, auth_url, token_url) ==
    [client_id |-> client_id,
     client_secret |-> client_secret,
     auth_url |-> auth_url,
     auth_type |-> "BasicAuth",
     token_url |-> token_url,
     scopes |-> <<>>,
     redirect_url |-> None]

\* Client::add_scope
add_scope(self, scope) == [self EXCEPT !.scopes = Append(@, scope)]

\* (a mutant of set_auth_type: the client is made anew with the auth type)
set_auth_type_anew(self, auth_type) ==
    [Client_new(self.client_id, self.client_secret, self.auth_url, self.token_url)
         EXCEPT !.auth_type = auth_type]

\* Client::set_auth_type
set_auth_type(self, auth_type) == [self EXCEPT !.auth_type = auth_type]

\* Client::set_redirect_url
set_redirect_url(self, redirect_url) ==
    [self EXCEPT !.redirect_url = Some(redirect_url)]

\* (a mutant of authorize_url_impl: scope is written before redirect_uri)
authorize_url_impl_scope_first(self, response_type, state_opt) ==
    LET scopes == join(self.scopes, <<" ">>)
        q1 == append_pair(self.auth_url.pairs, k_response_type, response_type)
        q2 == append_pair(q1, k_client_id, self.client_id)
        q3 == IF scopes # <<>> THEN append_pair(q2, k_scope, scopes) ELSE q2
        q4 == IF self.redirect_url.some
              THEN append_pair(q3, k_redirect_uri, url_as_str(self.redirect_url.v))
              ELSE q3
        q5 == IF state_opt.some THEN append_pair(q4, k_state, state_opt.v) ELSE q4
    IN  Url(self.auth_url.base, q5)

\* Client::authorize_url_impl
authorize_url_impl(self, response_type, state_opt) ==
    LET scopes == join(self.scopes, <<" ">>)
        q1 == append_pair(self.auth_url.pairs, k_response_type, response_type)
        q2 == append_pair(q1, k_client_id, self.client_id)
        q3 == IF self.redirect_url.some
              THEN append_pair(q2, k_redirect_uri, url_as_str(self.redirect_url.v))
              ELSE q2
        q4 == IF scopes # <<>> THEN append_pair(q3, k_scope, scopes) ELSE q3
        q5 == IF state_opt.some THEN append_pair(q4, k_state, state_opt.v) ELSE q4
    IN  Url(self.auth_url.base, q5)

\* Sha256::digest followed by base64::encode_config(URL_SAFE_NO_PAD): the
\* 43 characters that encode the 32 bytes of the digest.  The digest is not
\* computed here; it is tabulated for the verifiers of the model, for the
\* empty text, for a, and for the verifier of RFC 7636, appendix B
Sha256Base64(s) ==
    CASE s = <<"v", "e", "r">> ->
             <<"z", "1", "Q", "q", "2", "h", "N", "e", "4", "-", "3", "L", "v", "n", "s", "x", "A", "D", "G", "S", "x", "1", "K", "V", "x", "-", "_", "w", "7", "-", "d", "Z", "O", "g", "o", "L", "D", "3", "k", "t", "U", "l", "Y">>
      [] s = <<>> ->
             <<"4", "7", "D", "E", "Q", "p", "j", "8", "H", "B", "S", "a", "-", "_", "T", "I", "m", "W", "-", "5", "J", "C", "e", "u", "Q", "e", "R", "k", "m", "5", "N", "M", "p", "J", "W", "Z", "G", "3", "h", "S", "u", "F", "U">>
      [] s = <<"a">> ->
             <<"y", "p", "e", "B", "E", "s", "o", "b", "v", "c", "r", "6", "w", "j", "G", "z", "m", "i", "P", "c", "T", "a", "e", "G", "7", "_", "g", "U", "f", "E", "5", "y", "u", "Y", "B", "3", "h", "a", "_", "u", "S", "L", "s">>
      [] s = <<"d", "B", "j", "f", "t", "J", "e", "Z", "4", "C", "V", "P", "-", "m", "B", "9", "2", "K", "2", "7", "u", "h", "b", "U", "J", "U", "1", "p", "1", "r", "_", "w", "W", "1", "g", "F", "W", "F", "O", "E", "j", "X", "k">> ->
             <<"E", "9", "M", "e", "l", "h", "o", "a", "2", "O", "w", "v", "F", "r", "E", "M", "T", "J", "g", "u", "C", "H", "a", "o", "e", "K", "1", "t", "8", "U", "R", "W", "b", "u", "G", "J", "S", "s", "t", "w", "-", "c", "M">>

\* PkceCodeVerifierS256::code_challenge
code_challenge(verifier) == Sha256Base64(verifier)

\* PkceCodeVerifierS256::code_challenge_method
code_challenge_method == v_S256

\* PkceCodeVerifierS256::authorize_url_params
authorize_url_params(verifier) ==
    <<<<k_code_challenge_method, code_challenge_method>>,
      <<k_code_challenge, code_challenge(verifier)>>>>

(***************************************************************************)
(* PkceCodeVerifierS256: generation.  The random bytes are not kept; a     *)
(* verifier is known by the length of its text.                            *)
(***************************************************************************)
\* (a mutant of base64_encoded_len: the encoding pads to whole groups, as
\* base64::URL_SAFE does)
base64_encoded_len_padded(n) == 4 * ((n + 2) \div 3)

\* base64::encode_config(_, URL_SAFE_NO_PAD): the length of the text for n
\* bytes, four characters for every three bytes and two or three for a
\* rest of one or two
base64_encoded_len(n) ==
    4 * (n \div 3) + (IF n % 3 = 0 THEN 0 ELSE (n % 3) + 1)

\* PkceCodeVerifierS256::new_random_len
new_random_len(num_bytes) ==
    IF ~(num_bytes >= 32 /\ num_bytes <= 96)
    THEN [outcome |-> "panic", assertion |-> 1, len |-> 0]
    ELSE LET code_len == base64_encoded_len(num_bytes)
         IN  IF ~(code_len >= 43 /\ code_len <= 128)
             THEN [outcome |-> "panic", assertion |-> 2, len |-> 0]
             ELSE [outcome |-> "verifier", assertion |-> 0, len |-> code_len]

\* PkceCodeVerifierS256::new_random
new_random == new_random_len(32)

(***************************************************************************)
(* RequestBuilder: a token request in progress.                            *)
(***************************************************************************)
\* Client::request_token
request_token(self) ==
    [token_url |-> self.token_url,
     auth_type |-> self.auth_type,
     client_id |-> self.client_id,
     client_secret |-> self.client_secret,
     redirect_url |-> self.redirect_url,
     params |-> <<>>]

\* RequestBuilder::param
param(self, key, value) == [self EXCEPT !.params = Append(@, <<key, value>>)]

\* Client::exchange_code
exchange_code(self, code) ==
    param(param(request_token(self), k_grant_type, v_authorization_code),
          k_code, code)

\* (a mutant of exchange_password: the scope parameter depends on the joined
\* text, as in authorize_url_impl, and not on the list)
exchange_password_scope_by_text(self, username, password) ==
    LET builder == param(param(param(request_token(self),
                                     k_grant_type, k_password),
                               k_username, username),
                         k_password, password)
        scopes == join(self.scopes, <<" ">>)
    IN  IF scopes # <<>>
        THEN param(builder, k_scope, scopes)
        ELSE builder

\* Client::exchange_password
exchange_password(self, username, password) ==
    LET builder == param(param(param(request_token(self),
                                     k_grant_type, k_password),
                               k_username, username),
                         k_password, password)
    IN  IF self.scopes # <<>>
        THEN param(builder, k_scope, join(self.scopes, <<" ">>))
        ELSE builder

\* (a mutant of exchange_client_credentials: the key is scope, as in
\* exchange_password)
exchange_client_credentials_scope(self) ==
    LET builder == param(request_token(self), k_grant_type, v_client_credentials)
    IN  IF self.scopes # <<>>
        THEN param(builder, k_scope, join(self.scopes, <<" ">>))
        ELSE builder

\* Client::exchange_client_credentials
exchange_client_credentials(self) ==
    LET builder == param(request_token(self), k_grant_type, v_client_credentials)
    IN  IF self.scopes # <<>>
        THEN param(builder, k_scopes, join(self.scopes, <<" ">>))
        ELSE builder

\* Client::exchange_refresh_token
exchange_refresh_token(self, refresh_token) ==
    param(param(request_token(self), k_grant_type, k_refresh_token),
          k_refresh_token, refresh_token)

\* reqwest's RequestBuilder::basic_auth: the Authorization header
basic_auth(username, password) ==
    [scheme |-> "Basic", username |-> username, password |-> password]

\* RequestBuilder::execute, match self.auth_type: the form fields that
\* carry the credentials (a mutant: they are written whatever the AuthType)
client_auth_fields_always(self) ==
    LET f == append_pair(<<>>, k_client_id, self.client_id)
    IN  IF self.client_secret.some
        THEN append_pair(f, k_client_secret, self.client_secret.v)
        ELSE f

client_auth_fields(self) ==
    IF self.auth_type = "RequestBody"
    THEN LET f == append_pair(<<>>, k_client_id, self.client_id)
         IN  IF self.client_secret.some
             THEN append_pair(f, k_client_secret, self.client_secret.v)
             ELSE f
    ELSE <<>>

\* RequestBuilder::execute, match self.auth_type: the Authorization header
client_auth_header(self) ==
    IF self.auth_type = "BasicAuth"
    THEN LET username == url_encode(self.client_id)
             password == IF self.client_secret.some
                         THEN Some(url_encode(self.client_secret.v))
                         ELSE None
         IN  Some(basic_auth(username, password))
    ELSE None

\* (a mutant of build_request: redirect_uri is written before the
\* accumulated parameters)
build_request_redirect_uri_first(self) ==
    LET form1 == client_auth_fields(self)
        form2 == IF self.redirect_url.some
                 THEN append_pair(form1, k_redirect_uri, url_as_str(self.redirect_url.v))
                 ELSE form1
        form3 == append_pairs(form2, self.params)
    IN  [method |-> "POST",
         url |-> url_as_str(self.token_url.v),
         accept |-> CONTENT_TYPE_JSON,
         authorization |-> client_auth_header(self),
         content_type |-> CONTENT_TYPE_FORM,
         body |-> form_finish(form3)]

\* RequestBuilder::execute, up to the request it hands to the transport
build_request(self) ==
    LET form1 == client_auth_fields(self)
        form2 == append_pairs(form1, self.params)
        form3 == IF self.redirect_url.some
                 THEN append_pair(form2, k_redirect_uri, url_as_str(self.redirect_url.v))
                 ELSE form2
    IN  [method |-> "POST",
         url |-> url_as_str(self.token_url.v),
         accept |-> CONTENT_TYPE_JSON,
         authorization |-> client_auth_header(self),
         content_type |-> CONTENT_TYPE_FORM,
         body |-> form_finish(form3)]

(***************************************************************************)
(* JSON, as serde_json hands it to the derived Deserialize impls.  A value *)
(* is a string, a number, null, or an object of one member.  A body is     *)
(* empty, a JSON object (its members in wire order), a JSON array (its     *)
(* items), one JSON value that is neither, or bytes that start no JSON     *)
(* value (<html>).                                                         *)
(***************************************************************************)
JStr(s) == [ty |-> "str", s |-> s, n |-> 0, k |-> <<>>, v |-> <<>>]
JNum(n) == [ty |-> "num", s |-> <<>>, n |-> n, k |-> <<>>, v |-> <<>>]
JNull == [ty |-> "null", s |-> <<>>, n |-> 0, k |-> <<>>, v |-> <<>>]
JObj(k, v) == [ty |-> "obj", s |-> <<>>, n |-> 0, k |-> k, v |-> v]

EmptyBody == [kind |-> "empty", members |-> <<>>]
JsonBody(members) == [kind |-> "json", members |-> members]
ArrayBody(items) == [kind |-> "array", members |-> items]
ScalarBody(v) == [kind |-> "scalar", members |-> <<v>>]
TextBody == [kind |-> "text", members |-> <<>>]

\* Bytes::is_empty
is_empty(body) == body.kind = "empty"

\* serde_json::Error: its category (Error::classify) and its message.  The
\* message is told by its leading words, by what was unexpected and by what
\* was expected; the text of the offending value and the line and column
\* that serde_json writes with them are left out.
SerdeError(category, code, unexpected, expected) ==
    [category |-> category, code |-> code,
     unexpected |-> unexpected, expected |-> expected]

\* ErrorCode::EofWhileParsingValue, ExpectedSomeValue, TrailingCharacters
eof_while_parsing_value == SerdeError("Eof", "EOF while parsing a value", "", "")
expected_value == SerdeError("Syntax", "expected value", "", "")
trailing_characters == SerdeError("Syntax", "trailing characters", "", "")

\* serde::de::Unexpected of a JSON value, as it is displayed
Unexpected(v) ==
    CASE v.ty = "str" -> "string"
      [] v.ty = "num" -> "integer"
      [] v.ty = "null" -> "null"
      [] v.ty = "obj" -> "map"

\* serde::de::Error::invalid_type, invalid_value, invalid_length,
\* unknown_variant, missing_field, duplicate_field
invalid_type(unexpected, expected) ==
    SerdeError("Data", "invalid type", unexpected, expected)
invalid_value(unexpected, expected) ==
    SerdeError("Data", "invalid value", unexpected, expected)
invalid_length(len, expected) ==
    SerdeError("Data", "invalid length", <<"0", "1", "2", "3", "4">>[len + 1], expected)
unknown_variant(expected) ==
    SerdeError("Data", "unknown variant", "", expected)
missing_field(name) == SerdeError("Data", "missing field", "", name)
duplicate_field(name) == SerdeError("Data", "duplicate field", "", name)

\* Result<T, serde_json::Error>
DeOk(v) == [ok |-> TRUE, v |-> v, err |-> SerdeError("", "", "", "")]
DeErr(e) == [ok |-> FALSE, v |-> <<>>, err |-> e]

\* the members of an object that carry the key
field(members, key) == SelectSeq(members, LAMBDA m : m[1] = key)

k_error == <<"e", "r", "r", "o", "r">>
k_error_description == <<"e", "r", "r", "o", "r", "_", "d", "e", "s", "c", "r", "i", "p", "t", "i", "o", "n">>
k_error_uri == <<"e", "r", "r", "o", "r", "_", "u", "r", "i">>
k_access_token == <<"a", "c", "c", "e", "s", "s", "_", "t", "o", "k", "e", "n">>
k_token_type == <<"t", "o", "k", "e", "n", "_", "t", "y", "p", "e">>
k_expires_in == <<"e", "x", "p", "i", "r", "e", "s", "_", "i", "n">>

\* serde's rename_all = "snake_case" on a variant identifier
RECURSIVE snake_case_from(_, _)
snake_case_from(name, i) ==
    IF i > Len(name) THEN <<>>
    ELSE (IF i > 1 /\ name[i] \in Range(UpperChars) THEN <<"_">> ELSE <<>>)
         \o <<to_lowercase_char(name[i])>> \o snake_case_from(name, i + 1)

snake_case(name) == snake_case_from(name, 1)

\* serde's rename_all = "lowercase" on a variant identifier
lowercase(name) == to_lowercase(name)

\* enum ErrorField: its unit variants, and its newtype variant
ErrorFieldUnitVariants ==
    {<<"I", "n", "v", "a", "l", "i", "d", "R", "e", "q", "u", "e", "s", "t">>, <<"I", "n", "v", "a", "l", "i", "d", "C", "l", "i", "e", "n", "t">>, <<"I", "n", "v", "a", "l", "i", "d", "G", "r", "a", "n", "t">>, <<"U", "n", "a", "u", "t", "h", "o", "r", "i", "z", "e", "d", "C", "l", "i", "e", "n", "t">>,
     <<"U", "n", "s", "u", "p", "p", "o", "r", "t", "e", "d", "G", "r", "a", "n", "t", "T", "y", "p", "e">>, <<"I", "n", "v", "a", "l", "i", "d", "S", "c", "o", "p", "e">>}
ErrorFieldOther == <<"O", "t", "h", "e", "r">>

ErrorField(variant, value) == [variant |-> variant, value |-> value]

\* (a mutant of ErrorField_wire_name: rename_all = "lowercase", as TokenType has)
ErrorField_wire_name_lowercase(variant) == lowercase(variant)

\* the wire name serde matches a variant of ErrorField by
ErrorField_wire_name(variant) == snake_case(variant)

ErrorField_expected ==
    "one of invalid_request, invalid_client, invalid_grant, unauthorized_client, unsupported_grant_type, invalid_scope, other"

\* <String as Deserialize>::deserialize, also behind the newtypes
\* AccessToken, RefreshToken and Scope
String_deserialize(v) ==
    IF v.ty = "str" THEN DeOk(v.s)
    ELSE DeErr(invalid_type(Unexpected(v), "a string"))

\* (a mutant of ErrorField_deserialize: the tag is lowercased before it is
\* matched, as the helper of token_type does)
ErrorField_deserialize_case_insensitive(v) ==
    LET tag == to_lowercase(IF v.ty = "str" THEN v.s ELSE v.k)
        units == {u \in ErrorFieldUnitVariants : ErrorField_wire_name(u) = tag}
    IN  IF v.ty \notin {"str", "obj"}
        THEN DeErr(expected_value)
        ELSE IF units # {}
        THEN IF v.ty = "str" \/ v.v.ty = "null"
             THEN DeOk(ErrorField(CHOOSE u \in units : TRUE, <<>>))
             ELSE DeErr(invalid_type(Unexpected(v.v), "unit"))
        ELSE IF ErrorField_wire_name(ErrorFieldOther) = tag
        THEN IF v.ty = "obj"
             THEN LET value == String_deserialize(v.v)
                  IN  IF value.ok THEN DeOk(ErrorField(ErrorFieldOther, value.v))
                      ELSE value
             ELSE DeErr(invalid_type("unit variant", "newtype variant"))
        ELSE DeErr(unknown_variant(ErrorField_expected))

\* the derived Deserialize of ErrorField (an externally tagged enum), as
\* serde_json's deserialize_enum drives it: a string is the tag of a unit
\* variant, an object of one member is a tag and the content of the
\* variant (null for a unit variant), and nothing else is taken
ErrorField_deserialize(v) ==
    LET tag == IF v.ty = "str" THEN v.s ELSE v.k
        units == {u \in ErrorFieldUnitVariants : ErrorField_wire_name(u) = tag}
    IN  IF v.ty \notin {"str", "obj"}
        THEN DeErr(expected_value)
        ELSE IF units # {}
        THEN IF v.ty = "str" \/ v.v.ty = "null"
             THEN DeOk(ErrorField(CHOOSE u \in units : TRUE, <<>>))
             ELSE DeErr(invalid_type(Unexpected(v.v), "unit"))
        ELSE IF ErrorField_wire_name(ErrorFieldOther) = tag
        THEN IF v.ty = "obj"
             THEN LET value == String_deserialize(v.v)
                  IN  IF value.ok THEN DeOk(ErrorField(ErrorFieldOther, value.v))
                      ELSE value
             ELSE DeErr(invalid_type("unit variant", "newtype variant"))
        ELSE DeErr(unknown_variant(ErrorField_expected))

\* <Option<String> as Deserialize>::deserialize
OptionString_deserialize(v) ==
    IF v.ty = "null" THEN DeOk(None)
    ELSE LET s == String_deserialize(v)
         IN  IF s.ok THEN DeOk(Some(s.v)) ELSE s

\* <Option<u64> as Deserialize>::deserialize
OptionU64_deserialize(v) ==
    IF v.ty = "null" THEN DeOk(None)
    ELSE IF v.ty = "num"
    THEN IF v.n >= 0 THEN DeOk(Some(v.n))
         ELSE DeErr(invalid_value(Unexpected(v), "u64"))
    ELSE DeErr(invalid_type(Unexpected(v), "u64"))

\* the fields of ErrorResponse that visit_map has not seen yet
ErrorResponse_unset ==
    [error |-> None, error_description |-> None, error_uri |-> None]

\* derive(Deserialize) of ErrorResponse, visit_map: the members are taken in
\* wire order; a key seen before is a duplicate, a key that names no field
\* is passed over, and the first value that fails ends the visit
RECURSIVE ErrorResponse_visit_map(_, _)
ErrorResponse_visit_map(members, seen) ==
    IF members = <<>> THEN DeOk(seen)
    ELSE LET key == members[1][1]
             value == members[1][2]
         IN  IF key = k_error
             THEN IF seen.error.some THEN DeErr(duplicate_field("error"))
                  ELSE LET d == ErrorField_deserialize(value)
                       IN  IF ~d.ok THEN d
                           ELSE ErrorResponse_visit_map(Tail(members),
                                    [seen EXCEPT !.error = Some(d.v)])
             ELSE IF key = k_error_description
             THEN IF seen.error_description.some
                  THEN DeErr(duplicate_field("error_description"))
                  ELSE LET d == OptionString_deserialize(value)
                       IN  IF ~d.ok THEN d
                           ELSE ErrorResponse_visit_map(Tail(members),
                                    [seen EXCEPT !.error_description = Some(d.v)])
             ELSE IF key = k_error_uri
             THEN IF seen.error_uri.some
                  THEN DeErr(duplicate_field("error_uri"))
                  ELSE LET d == OptionString_deserialize(value)
                       IN  IF ~d.ok THEN d
                           ELSE ErrorResponse_visit_map(Tail(members),
                                    [seen EXCEPT !.error_uri = Some(d.v)])
             ELSE ErrorResponse_visit_map(Tail(members), seen)

\* derive(Deserialize) of ErrorResponse, the end of visit_map: error has no
\* default, error_description and error_uri have #[serde(default)]
ErrorResponse_missing_fields(seen) ==
    IF ~seen.error.some THEN DeErr(missing_field("error"))
    ELSE DeOk([error |-> seen.error.v,
               error_description |-> IF seen.error_description.some
                                     THEN seen.error_description.v ELSE None,
               error_uri |-> IF seen.error_uri.some
                             THEN seen.error_uri.v ELSE None])

\* derive(Deserialize) of ErrorResponse, visit_seq: the items are the fields
\* in the order of their declaration; an item that is not there is an
\* invalid length for error and the default for the two fields that have
\* one; serde_json's end_seq takes no item after the third
ErrorResponse_visit_seq(items) ==
    IF Len(items) < 1
    THEN DeErr(invalid_length(0, "struct ErrorResponse with 3 elements"))
    ELSE LET error == ErrorField_deserialize(items[1])
             error_description == IF Len(items) < 2 THEN DeOk(None)
                                  ELSE OptionString_deserialize(items[2])
             error_uri == IF Len(items) < 3 THEN DeOk(None)
                          ELSE OptionString_deserialize(items[3])
         IN  IF ~error.ok THEN error
             ELSE IF ~error_description.ok THEN error_description
             ELSE IF ~error_uri.ok THEN error_uri
             ELSE IF Len(items) > 3 THEN DeErr(trailing_characters)
             ELSE DeOk([error |-> error.v,
                        error_description |-> error_description.v,
                        error_uri |-> error_uri.v])

\* serde_json::from_slice::<ErrorResponse>: deserialize_struct takes an
\* object by visit_map and an array by visit_seq
ErrorResponse_from_slice(body) ==
    CASE body.kind = "empty" -> DeErr(eof_while_parsing_value)
      [] body.kind = "text" -> DeErr(expected_value)
      [] body.kind = "scalar" ->
             DeErr(invalid_type(Unexpected(body.members[1]), "struct ErrorResponse"))
      [] body.kind = "array" -> ErrorResponse_visit_seq(body.members)
      [] body.kind = "json" ->
             LET seen == ErrorResponse_visit_map(body.members, ErrorResponse_unset)
             IN  IF seen.ok THEN ErrorResponse_missing_fields(seen.v) ELSE seen

\* enum TokenType
TokenTypeVariants == {<<"B", "e", "a", "r", "e", "r">>, <<"M", "a", "c">>}

\* (a mutant of deserialize_untagged_enum_case_insensitive: the text is
\* matched as it is)
deserialize_untagged_enum_case_sensitive(v) ==
    LET s == String_deserialize(v)
    IN  IF ~s.ok THEN s
        ELSE LET found == {t \in TokenTypeVariants : lowercase(t) = s.v}
             IN  IF found # {} THEN DeOk(CHOOSE t \in found : TRUE)
                 ELSE DeErr(unknown_variant("bearer or mac"))

\* helpers::deserialize_untagged_enum_case_insensitive, for TokenType
deserialize_untagged_enum_case_insensitive(v) ==
    LET s == String_deserialize(v)
    IN  IF ~s.ok THEN s
        ELSE LET lower == to_lowercase(s.v)
                 found == {t \in TokenTypeVariants : lowercase(t) = lower}
             IN  IF found # {} THEN DeOk(CHOOSE t \in found : TRUE)
                 ELSE DeErr(unknown_variant("bearer or mac"))

\* (a mutant of deserialize_space_delimited_vec: the pieces are collected
\* last first)
deserialize_space_delimited_vec_reversed(v) ==
    LET space_delimited == OptionString_deserialize(v)
    IN  IF ~space_delimited.ok THEN space_delimited
        ELSE IF space_delimited.v.some
        THEN LET pieces == split(space_delimited.v.v, " ")
             IN  DeOk(Some([i \in DOMAIN pieces |-> pieces[Len(pieces) + 1 - i]]))
        ELSE DeOk(None)

\* helpers::deserialize_space_delimited_vec, for Option<Vec<Scope>>
deserialize_space_delimited_vec(v) ==
    LET space_delimited == OptionString_deserialize(v)
    IN  IF ~space_delimited.ok THEN space_delimited
        ELSE IF space_delimited.v.some
        THEN DeOk(Some(split(space_delimited.v.v, " ")))
        ELSE DeOk(None)

\* the fields of StandardTokenResponse that visit_map has not seen yet
StandardTokenResponse_unset ==
    [access_token |-> None, token_type |-> None, expires_in |-> None,
     refresh_token |-> None, scopes |-> None]

\* derive(Deserialize) of StandardTokenResponse, one member of visit_map:
\* the field the key names and the value read for it
StandardTokenResponse_visit_field(key, value) ==
    CASE key = k_access_token ->
             [name |-> "access_token", d |-> String_deserialize(value)]
      [] key = k_token_type ->
             [name |-> "token_type",
              d |-> deserialize_untagged_enum_case_insensitive(value)]
      [] key = k_expires_in ->
             [name |-> "expires_in", d |-> OptionU64_deserialize(value)]
      [] key = k_refresh_token ->
             [name |-> "refresh_token", d |-> OptionString_deserialize(value)]
      [] key = k_scope ->
             [name |-> "scopes", d |-> deserialize_space_delimited_vec(value)]
      [] OTHER -> [name |-> "", d |-> DeOk(<<>>)]

\* derive(Deserialize) of StandardTokenResponse, visit_map: the members are
\* taken in wire order; a key seen before is a duplicate, a key that names
\* no field is passed over, and the first value that fails ends the visit
RECURSIVE StandardTokenResponse_visit_map(_, _)
StandardTokenResponse_visit_map(members, seen) ==
    IF members = <<>> THEN DeOk(seen)
    ELSE LET f == StandardTokenResponse_visit_field(members[1][1], members[1][2])
         IN  IF f.name = ""
             THEN StandardTokenResponse_visit_map(Tail(members), seen)
             ELSE IF seen[f.name].some
             THEN DeErr(duplicate_field(IF f.name = "scopes" THEN "scope" ELSE f.name))
             ELSE IF ~f.d.ok THEN f.d
             ELSE StandardTokenResponse_visit_map(Tail(members),
                      [seen EXCEPT ![f.name] = Some(f.d.v)])

\* (a mutant of StandardTokenResponse_missing_fields: access_token and
\* token_type have #[serde(default)] as scopes has)
StandardTokenResponse_missing_fields_with_defaults(seen) ==
    DeOk([access_token |-> IF seen.access_token.some
                           THEN seen.access_token.v ELSE <<>>,
          token_type |-> IF seen.token_type.some
                         THEN seen.token_type.v ELSE <<"B", "e", "a", "r", "e", "r">>,
          expires_in |-> IF seen.expires_in.some
                         THEN seen.expires_in.v ELSE None,
          refresh_token |-> IF seen.refresh_token.some
                            THEN seen.refresh_token.v ELSE None,
          scopes |-> IF seen.scopes.some THEN seen.scopes.v ELSE None])

\* derive(Deserialize) of StandardTokenResponse, the end of visit_map:
\* access_token and token_type must have been seen, an Option that was not
\* seen is None, and scopes has #[serde(default)]
StandardTokenResponse_missing_fields(seen) ==
    IF ~seen.access_token.some THEN DeErr(missing_field("access_token"))
    ELSE IF ~seen.token_type.some THEN DeErr(missing_field("token_type"))
    ELSE DeOk([access_token |-> seen.access_token.v,
               token_type |-> seen.token_type.v,
               expires_in |-> IF seen.expires_in.some
                              THEN seen.expires_in.v ELSE None,
               refresh_token |-> IF seen.refresh_token.some
                                 THEN seen.refresh_token.v ELSE None,
               scopes |-> IF seen.scopes.some THEN seen.scopes.v ELSE None])

\* derive(Deserialize) of StandardTokenResponse, visit_seq: the items are
\* the fields in the order of their declaration; an item that is not there
\* is an invalid length, but for scopes, which has a default; serde_json's
\* end_seq takes no item after the fifth
StandardTokenResponse_visit_seq(items) ==
    LET missing(i) == DeErr(invalid_length(i - 1,
                               "struct StandardTokenResponse with 5 elements"))
        access_token == IF Len(items) < 1 THEN missing(1)
                        ELSE String_deserialize(items[1])
        token_type == IF Len(items) < 2 THEN missing(2)
                      ELSE deserialize_untagged_enum_case_insensitive(items[2])
        expires_in == IF Len(items) < 3 THEN missing(3)
                      ELSE OptionU64_deserialize(items[3])
        refresh_token == IF Len(items) < 4 THEN missing(4)
                         ELSE OptionString_deserialize(items[4])
        scopes == IF Len(items) < 5 THEN DeOk(None)
                  ELSE deserialize_space_delimited_vec(items[5])
    IN  IF ~access_token.ok THEN access_token
        ELSE IF ~token_type.ok THEN token_type
        ELSE IF ~expires_in.ok THEN expires_in
        ELSE IF ~refresh_token.ok THEN refresh_token
        ELSE IF ~scopes.ok THEN scopes
        ELSE IF Len(items) > 5 THEN DeErr(trailing_characters)
        ELSE DeOk([access_token |-> access_token.v,
                   token_type |-> token_type.v,
                   expires_in |-> expires_in.v,
                   refresh_token |-> refresh_token.v,
                   scopes |-> scopes.v])

\* serde_json::from_slice::<StandardTokenResponse>: deserialize_struct
\* takes an object by visit_map and an array by visit_seq
StandardTokenResponse_from_slice(body) ==
    CASE body.kind = "empty" -> DeErr(eof_while_parsing_value)
      [] body.kind = "text" -> DeErr(expected_value)
      [] body.kind = "scalar" ->
             DeErr(invalid_type(Unexpected(body.members[1]),
                                "struct StandardTokenResponse"))
      [] body.kind = "array" -> StandardTokenResponse_visit_seq(body.members)
      [] body.kind = "json" ->
             LET seen == StandardTokenResponse_visit_map(body.members,
                                                         StandardTokenResponse_unset)
             IN  IF seen.ok THEN StandardTokenResponse_missing_fields(seen.v)
                 ELSE seen

(***************************************************************************)
(* fmt::Debug.  A rendering is the text, character by character.  A       *)
(* String prints as its quoted text and a Url as the struct of its parts.  *)
(* The text of the reqwest client is that crate's own, holds nothing of    *)
(* the values here, and stands as the name of the type.                    *)
(***************************************************************************)
\* <str as fmt::Debug>::fmt, for text without quotes and backslashes
str_fmt(s) == <<"\"">> \o s \o <<"\"">>

\* <u64 as fmt::Debug>::fmt
RECURSIVE u64_fmt(_)
u64_fmt(n) ==
    IF n < 10 THEN <<DigitChars[n + 1]>>
    ELSE u64_fmt(n \div 10) \o <<DigitChars[(n % 10) + 1]>>

\* <Option<T> as fmt::Debug>::fmt, the inner value already rendered
Option_fmt(opt) ==
    IF opt.some THEN <<"S", "o", "m", "e", "(">> \o opt.v \o <<")">> ELSE <<"N", "o", "n", "e">>

\* <Vec<T> as fmt::Debug>::fmt, the elements already rendered
Vec_fmt(items) == <<"[">> \o join(items, <<",", " ">>) \o <<"]">>

\* derive(Debug) of a struct: Name { field: value, ... }
struct_fmt(name, fields) ==
    name \o <<" ", "{", " ">>
         \o join([i \in DOMAIN fields |-> fields[i][1] \o <<":", " ">> \o fields[i][2]],
                 <<",", " ">>)
         \o <<" ", "}">>

\* new_type!: derive(Debug) of a tuple struct, Name(value)
new_type_fmt(name, inner) == name \o <<"(">> \o inner \o <<")">>

\* the types made by new_secret_type!
SecretTypes ==
    {<<"C", "l", "i", "e", "n", "t", "S", "e", "c", "r", "e", "t">>, <<"C", "s", "r", "f", "T", "o", "k", "e", "n">>, <<"P", "k", "c", "e", "C", "o", "d", "e", "V", "e", "r", "i", "f", "i", "e", "r", "S", "2", "5", "6">>, <<"A", "u", "t", "h", "o", "r", "i", "z", "a", "t", "i", "o", "n", "C", "o", "d", "e">>,
     <<"R", "e", "f", "r", "e", "s", "h", "T", "o", "k", "e", "n">>, <<"A", "c", "c", "e", "s", "s", "T", "o", "k", "e", "n">>, <<"R", "e", "s", "o", "u", "r", "c", "e", "O", "w", "n", "e", "r", "P", "a", "s", "s", "w", "o", "r", "d">>}

\* (a mutant of secret_fmt: the Debug that new_type! derives)
secret_fmt_derived(name, secret) == new_type_fmt(name, str_fmt(secret))

\* new_secret_type!: impl fmt::Debug, write!(f, concat!(stringify!($name), "([redacted])"))
secret_fmt(name, secret) == name \o <<"(", "[", "r", "e", "d", "a", "c", "t", "e", "d", "]", ")">>

\* derive(Debug) of AuthType and of TokenType: the name of the variant
AuthType_fmt(auth_type) ==
    IF auth_type = "RequestBody" THEN <<"R", "e", "q", "u", "e", "s", "t", "B", "o", "d", "y">> ELSE <<"B", "a", "s", "i", "c", "A", "u", "t", "h">>

TokenType_fmt(token_type) == token_type

\* <url::Url as fmt::Debug>::fmt: the parts of the URL as a struct.  The
\* URLs here are http URLs of a domain name with no user, password, port
\* or fragment; the query is Some of its text when the URL has one.
Url_fmt(u) ==
    LET parts == split(u.base, "/")
        scheme == SubSeq(parts[1], 1, Len(parts[1]) - 1)
        host == parts[3]
        path == <<"/">> \o join(SubSeq(parts, 4, Len(parts)), <<"/">>)
        query == IF u.pairs = <<>> THEN None
                 ELSE Some(str_fmt(form_finish(u.pairs)))
    IN  struct_fmt(<<"U", "r", "l">>,
            << <<<<"s", "c", "h", "e", "m", "e">>, str_fmt(scheme)>>,
               <<<<"c", "a", "n", "n", "o", "t", "_", "b", "e", "_", "a", "_", "b", "a", "s", "e">>, <<"f", "a", "l", "s", "e">>>>,
               <<<<"u", "s", "e", "r", "n", "a", "m", "e">>, str_fmt(<<>>)>>,
               <<<<"p", "a", "s", "s", "w", "o", "r", "d">>, Option_fmt(None)>>,
               <<<<"h", "o", "s", "t">>, Option_fmt(Some(new_type_fmt(<<"D", "o", "m", "a", "i", "n">>, str_fmt(host))))>>,
               <<<<"p", "o", "r", "t">>, Option_fmt(None)>>,
               <<<<"p", "a", "t", "h">>, str_fmt(path)>>,
               <<<<"q", "u", "e", "r", "y">>, Option_fmt(query)>>,
               <<<<"f", "r", "a", "g", "m", "e", "n", "t">>, Option_fmt(None)>> >>)

\* derive(Debug) of Client
Client_fmt(self) ==
    struct_fmt(<<"C", "l", "i", "e", "n", "t">>,
        << <<<<"c", "l", "i", "e", "n", "t">>, <<"C", "l", "i", "e", "n", "t">>>>,
           <<k_client_id, new_type_fmt(<<"C", "l", "i", "e", "n", "t", "I", "d">>, str_fmt(self.client_id))>>,
           <<k_client_secret,
             Option_fmt(IF self.client_secret.some
                        THEN Some(secret_fmt(<<"C", "l", "i", "e", "n", "t", "S", "e", "c", "r", "e", "t">>, self.client_secret.v))
                        ELSE None)>>,
           <<<<"a", "u", "t", "h", "_", "u", "r", "l">>, new_type_fmt(<<"A", "u", "t", "h", "U", "r", "l">>, Url_fmt(self.auth_url))>>,
           <<<<"a", "u", "t", "h", "_", "t", "y", "p", "e">>, AuthType_fmt(self.auth_type)>>,
           <<<<"t", "o", "k", "e", "n", "_", "u", "r", "l">>,
             Option_fmt(IF self.token_url.some
                        THEN Some(new_type_fmt(<<"T", "o", "k", "e", "n", "U", "r", "l">>, Url_fmt(self.token_url.v)))
                        ELSE None)>>,
           <<k_scopes,
             Vec_fmt([i \in DOMAIN self.scopes |->
                         new_type_fmt(<<"S", "c", "o", "p", "e">>, str_fmt(self.scopes[i]))])>>,
           <<<<"r", "e", "d", "i", "r", "e", "c", "t", "_", "u", "r", "l">>,
             Option_fmt(IF self.redirect_url.some
                        THEN Some(new_type_fmt(<<"R", "e", "d", "i", "r", "e", "c", "t", "U", "r", "l">>, Url_fmt(self.redirect_url.v)))
                        ELSE None)>> >>)

\* derive(Debug) of StandardTokenResponse
StandardTokenResponse_fmt(self) ==
    struct_fmt(<<"S", "t", "a", "n", "d", "a", "r", "d", "T", "o", "k", "e", "n", "R", "e", "s", "p", "o", "n", "s", "e">>,
        << <<k_access_token, secret_fmt(<<"A", "c", "c", "e", "s", "s", "T", "o", "k", "e", "n">>, self.access_token)>>,
           <<k_token_type, TokenType_fmt(self.token_type)>>,
           <<k_expires_in,
             Option_fmt(IF self.expires_in.some
                        THEN Some(u64_fmt(self.expires_in.v))
                        ELSE None)>>,
           <<k_refresh_token,
             Option_fmt(IF self.refresh_token.some
                        THEN Some(secret_fmt(<<"R", "e", "f", "r", "e", "s", "h", "T", "o", "k", "e", "n">>, self.refresh_token.v))
                        ELSE None)>>,
           <<k_scopes,
             Option_fmt(IF self.scopes.some
                        THEN Some(Vec_fmt([i \in DOMAIN self.scopes.v |->
                                 new_type_fmt(<<"S", "c", "o", "p", "e">>, str_fmt(self.scopes.v[i]))]))
                        ELSE None)>> >>)

(***************************************************************************)
(* Result<T, RequestTokenError>, and a panic.                              *)
(***************************************************************************)
Outcome(kind, value, bytes, msg) ==
    [kind |-> kind, value |-> value, bytes |-> bytes, msg |-> msg]

Ok(token) == Outcome("Ok", token, <<>>, "")
ServerResponse(error) == Outcome("ServerResponse", error, <<>>, "")
ClientError(msg) == Outcome("Client", <<>>, <<>>, msg)
\* (a mutant of Parse: the body is not kept)
ParseWithoutBytes(err, bytes) == Outcome("Parse", err, EmptyBody, "")
\* RequestTokenError::Parse(serde_json::Error, Vec<u8>)
Parse(err, bytes) == Outcome("Parse", err, bytes, "")
Other(msg) == Outcome("Other", <<>>, <<>>, msg)
Panic(msg) == Outcome("Panic", <<>>, <<>>, msg)
NoOutcome == Outcome("None", <<>>, <<>>, "")

\* StatusCode::is_success
is_success(status) == 200 <= status /\ status <= 299

\* what the transport does with a request: it fails to send it, it fails
\* while the body is read, or it delivers a status and a body
SendError == [outcome |-> "send_error", status |-> 0, body |-> EmptyBody]
BodyError(status) == [outcome |-> "body_error", status |-> status, body |-> EmptyBody]
Delivered(status, body) == [outcome |-> "delivered", status |-> status, body |-> body]
\* the answer of which execute has the status and awaits the body
StatusReceived(status) == [outcome |-> "status", status |-> status, body |-> EmptyBody]
NoResponse == [outcome |-> "none", status |-> 0, body |-> EmptyBody]

\* RequestBuilder::execute, the token endpoint: ok_or_else(..).unwrap()
token_url_or_panic(self) ==
    IF self.token_url.some
    THEN DeOk(self.token_url.v)
    ELSE DeErr("called Result::unwrap() on an Err value: Other(token_url must not be None)")

\* (a mutant of error_response: an empty body is parsed like any other)
error_response_unchecked(body) ==
    LET error == ErrorResponse_from_slice(body)
    IN  IF error.ok THEN ServerResponse(error.v)
        ELSE Parse(error.err, body)

\* RequestBuilder::execute, the status is no success
error_response(body) ==
    IF is_empty(body)
    THEN Other("Server returned empty error response")
    ELSE LET error == ErrorResponse_from_slice(body)
         IN  IF error.ok THEN ServerResponse(error.v)
             ELSE Parse(error.err, body)

\* (a mutant of success_response: an empty body is parsed like any other)
success_response_unchecked(body) ==
    LET token == StandardTokenResponse_from_slice(body)
    IN  IF token.ok THEN Ok(token.v)
        ELSE Parse(token.err, body)

\* RequestBuilder::execute, the status is a success
success_response(body) ==
    IF is_empty(body)
    THEN Other("Server returned empty response body")
    ELSE LET token == StandardTokenResponse_from_slice(body)
         IN  IF token.ok THEN Ok(token.v)
             ELSE Parse(token.err, body)

\* (a mutant of handle_response: the body decides; the status is looked at
\* only when the body is no token and no error)
handle_response_by_body(resp) ==
    IF resp.outcome = "send_error" THEN ClientError("send")
    ELSE IF resp.outcome = "body_error" THEN ClientError("bytes")
    ELSE IF ~is_empty(resp.body) /\ StandardTokenResponse_from_slice(resp.body).ok
    THEN success_response(resp.body)
    ELSE IF ~is_empty(resp.body) /\ ErrorResponse_from_slice(resp.body).ok
    THEN error_response(resp.body)
    ELSE IF ~is_success(resp.status) THEN error_response(resp.body)
    ELSE success_response(resp.body)

\* RequestBuilder::execute, from the answer of the transport on
handle_response(resp) ==
    IF resp.outcome = "send_error" THEN ClientError("send")
    ELSE IF resp.outcome = "body_error" THEN ClientError("bytes")
    ELSE IF ~is_success(resp.status) THEN error_response(resp.body)
    ELSE success_response(resp.body)

(***************************************************************************)
(* What the authorization server may answer.                               *)
(***************************************************************************)
Statuses == {200, 201, 299, 300, 400, 401, 500}

\* the error codes of RFC 6749, section 5.2, as they are written on the wire
WireErrorCodes ==
    {<<"i", "n", "v", "a", "l", "i", "d", "_", "r", "e", "q", "u", "e", "s", "t">>, <<"i", "n", "v", "a", "l", "i", "d", "_", "c", "l", "i", "e", "n", "t">>, <<"i", "n", "v", "a", "l", "i", "d", "_", "g", "r", "a", "n", "t">>, <<"u", "n", "a", "u", "t", "h", "o", "r", "i", "z", "e", "d", "_", "c", "l", "i", "e", "n", "t">>,
     <<"u", "n", "s", "u", "p", "p", "o", "r", "t", "e", "d", "_", "g", "r", "a", "n", "t", "_", "t", "y", "p", "e">>, <<"i", "n", "v", "a", "l", "i", "d", "_", "s", "c", "o", "p", "e">>}

ErrorBodies ==
    {JsonBody(<<<<k_error, JStr(c)>>>>) : c \in WireErrorCodes}
    \cup {JsonBody(<<<<k_error, JStr(c)>>>>) :
              c \in {<<"t", "e", "m", "p", "o", "r", "a", "r", "i", "l", "y", "_", "u", "n", "a", "v", "a", "i", "l", "a", "b", "l", "e">>, <<"o", "t", "h", "e", "r">>, <<"I", "N", "V", "A", "L", "I", "D", "_", "G", "R", "A", "N", "T">>,
                     <<"I", "n", "v", "a", "l", "i", "d", "_", "G", "r", "a", "n", "t">>, <<"i", "n", "v", "a", "l", "i", "d", "G", "r", "a", "n", "t">>}}
    \cup {JsonBody(<<<<k_error, JObj(<<"o", "t", "h", "e", "r">>, JStr(<<"s", "l", "o", "w", "_", "d", "o", "w", "n">>))>>>>),
          JsonBody(<<<<k_error, JObj(<<"i", "n", "v", "a", "l", "i", "d", "_", "g", "r", "a", "n", "t">>, JNull)>>>>),
          JsonBody(<<<<k_error, JObj(<<"i", "n", "v", "a", "l", "i", "d", "_", "g", "r", "a", "n", "t">>, JStr(<<"x">>))>>>>),
          JsonBody(<<<<k_error_description, JNum(5)>>>>),
          JsonBody(<<<<k_error, JStr(<<"b", "o", "g", "u", "s">>)>>, <<k_error_uri, JStr(<<"a">>)>>,
                     <<k_error_uri, JStr(<<"b">>)>>>>),
          ArrayBody(<<>>),
          ArrayBody(<<JStr(<<"i", "n", "v", "a", "l", "i", "d", "_", "g", "r", "a", "n", "t">>)>>),
          ArrayBody(<<JStr(<<"i", "n", "v", "a", "l", "i", "d", "_", "g", "r", "a", "n", "t">>), JStr(<<"d">>), JStr(<<"u">>)>>),
          ArrayBody(<<JStr(<<"I", "N", "V", "A", "L", "I", "D", "_", "G", "R", "A", "N", "T">>), JNull>>),
          ArrayBody(<<JStr(<<"i", "n", "v", "a", "l", "i", "d", "_", "g", "r", "a", "n", "t">>), JNull, JNull, JNull>>),
          JsonBody(<<<<k_error, JNum(7)>>>>),
          JsonBody(<<<<k_error, JStr(<<"i", "n", "v", "a", "l", "i", "d", "_", "g", "r", "a", "n", "t">>)>>,
                     <<k_error_description, JStr(<<"b", "a", "d", " ", "c", "o", "d", "e">>)>>,
                     <<k_error_uri, JStr(<<"h", "t", "t", "p", ":", "/", "/", "e">>)>>>>),
          JsonBody(<<<<k_error_description, JStr(<<"b", "a", "d", " ", "c", "o", "d", "e">>)>>,
                     <<k_error, JStr(<<"i", "n", "v", "a", "l", "i", "d", "_", "s", "c", "o", "p", "e">>)>>,
                     <<<<"h", "i", "n", "t">>, JStr(<<"x">>)>>>>),
          JsonBody(<<<<k_error, JStr(<<"i", "n", "v", "a", "l", "i", "d", "_", "g", "r", "a", "n", "t">>)>>,
                     <<k_error_uri, JNull>>>>),
          JsonBody(<<<<k_error_description, JStr(<<"b", "a", "d", " ", "c", "o", "d", "e">>)>>>>),
          JsonBody(<<<<k_error, JStr(<<"i", "n", "v", "a", "l", "i", "d", "_", "g", "r", "a", "n", "t">>)>>,
                     <<k_error, JStr(<<"i", "n", "v", "a", "l", "i", "d", "_", "s", "c", "o", "p", "e">>)>>>>)}

TokenBodies ==
    {JsonBody(<<<<k_access_token, JStr(<<"a", "b", "c">>)>>, <<k_token_type, JStr(t)>>>>) :
         t \in {<<"b", "e", "a", "r", "e", "r">>, <<"B", "e", "a", "r", "e", "r">>, <<"B", "E", "A", "R", "E", "R">>, <<"b", "E", "a", "R", "e", "R">>, <<"m", "a", "c">>, <<"M", "a", "c">>, <<"M", "A", "C">>, <<"b", "a", "s", "i", "c">>, <<"b", "e", "a", "r", "e", "r", " ">>, <<"b", "e", "a", "r", "e", "r", "_">>}}
    \cup {JsonBody(<<<<k_access_token, JStr(<<"a", "b", "c">>)>>, <<k_token_type, JStr(<<"B", "e", "a", "r", "e", "r">>)>>,
                     <<k_scope, v>>>>) :
              v \in {JStr(<<"r", "e", "a", "d", " ", "w", "r", "i", "t", "e">>), JStr(<<"w", "r", "i", "t", "e", " ", "r", "e", "a", "d">>), JStr(<<"r", "e", "a", "d">>), JStr(<<"a", " ", " ", "b">>), JStr(<<>>), JNull}}
    \cup {JsonBody(<<<<k_token_type, JStr(<<"b", "e", "a", "r", "e", "r">>)>>,
                     <<k_access_token, JStr(<<"a", "b", "c">>)>>,
                     <<k_expires_in, JNum(3600)>>,
                     <<k_refresh_token, JStr(<<"r", "t">>)>>>>),
          JsonBody(<<<<k_access_token, JStr(<<"a", "b", "c">>)>>>>),
          JsonBody(<<<<k_token_type, JStr(<<"b", "e", "a", "r", "e", "r">>)>>>>),
          JsonBody(<<<<k_token_type, JStr(<<"b", "a", "s", "i", "c">>)>>>>),
          JsonBody(<<<<k_access_token, JStr(<<"a", "b", "c">>)>>, <<k_token_type, JStr(<<"b", "a", "s", "i", "c">>)>>,
                     <<k_token_type, JStr(<<"m", "a", "c">>)>>>>),
          JsonBody(<<<<k_access_token, JStr(<<"a", "b", "c">>)>>, <<k_token_type, JStr(<<"b", "e", "a", "r", "e", "r">>)>>,
                     <<k_expires_in, JNum(0 - 1)>>>>),
          JsonBody(<<<<k_error, JStr(<<"i", "n", "v", "a", "l", "i", "d", "_", "g", "r", "a", "n", "t">>)>>, <<k_access_token, JStr(<<"a", "b", "c">>)>>,
                     <<k_token_type, JStr(<<"b", "e", "a", "r", "e", "r">>)>>>>),
          ArrayBody(<<JStr(<<"a", "b", "c">>), JStr(<<"b", "e", "a", "r", "e", "r">>)>>),
          ArrayBody(<<JStr(<<"a", "b", "c">>), JStr(<<"b", "e", "a", "r", "e", "r">>), JNull, JNull>>),
          ArrayBody(<<JStr(<<"a", "b", "c">>), JStr(<<"b", "e", "a", "r", "e", "r">>), JNum(3600), JStr(<<"r", "t">>), JStr(<<"w", "r", "i", "t", "e", " ", "r", "e", "a", "d">>)>>),
          ArrayBody(<<JStr(<<"a", "b", "c">>), JStr(<<"b", "e", "a", "r", "e", "r">>), JNull, JNull, JNull, JNull>>),
          JsonBody(<<<<k_access_token, JNull>>, <<k_token_type, JStr(<<"b", "e", "a", "r", "e", "r">>)>>>>),
          JsonBody(<<<<k_access_token, JStr(<<"a", "b", "c">>)>>, <<k_token_type, JStr(<<"b", "e", "a", "r", "e", "r">>)>>,
                     <<k_expires_in, JStr(<<"s", "o", "o", "n">>)>>>>)}

Bodies ==
    {EmptyBody, TextBody, JsonBody(<<>>),
     ScalarBody(JNum(42)), ScalarBody(JNull), ScalarBody(JStr(<<"s", "t", "r">>))}
    \cup ErrorBodies \cup TokenBodies

\* every answer of the transport
Responses ==
    {SendError} \cup {BodyError(st) : st \in {200, 400}}
    \cup {Delivered(st, b) : st \in Statuses, b \in Bodies}

\* the answers that tell the outcomes of execute apart
CoreResponses ==
    {SendError, BodyError(200),
     Delivered(200, JsonBody(<<<<k_access_token, JStr(<<"a", "b", "c">>)>>,
                               <<k_token_type, JStr(<<"b", "e", "a", "r", "e", "r">>)>>>>)),
     Delivered(400, JsonBody(<<<<k_error, JStr(<<"i", "n", "v", "a", "l", "i", "d", "_", "g", "r", "a", "n", "t">>)>>>>))}

(***************************************************************************)
(* The state.                                                              *)
(***************************************************************************)
VARIABLES
    client,      \* the Client the callers hold
    history,     \* how it came about: the arguments of Client::new, of every
                 \* add_scope, and of the last set_auth_type and set_redirect_url
    pc,          \* pc[r]: where token exchange r stands: idle, built (a
                 \* RequestBuilder is held), called (execute was called and
                 \* its future is held, not polled yet), awaiting (the
                 \* request is with the transport), reading (the status is
                 \* there, the body is awaited), done (the result is held)
    builder,     \* builder[r]: the RequestBuilder of exchange r
    calls,       \* calls[r]: the param() calls the caller made on it
    grant,       \* grant[r]: the entry point that built it, the client it
                 \* was called on, its arguments, and the param() calls of
                 \* the caller since
    http,        \* http[r]: the requests exchange r handed to the transport
    response,    \* response[r]: what the transport answered
    result,      \* result[r]: what execute returned
    authz,       \* the last authorization URL built, with how it was asked
                 \* and the client it was asked of
    log,         \* the last value a caller formatted with {:?}, and the text
    pkce         \* the last call that generates a PKCE verifier, and its outcome

vars == <<client, history, pc, builder, calls, grant, http, response, result, authz, log, pkce>>

\* the token exchanges the callers run
Requests == {"r1", "r2"}

NoClient == Client_new(<<>>, None, Url(<<>>, <<>>), None)

NoBuilder == request_token(NoClient)

NoGrant == [entry |-> "", client |-> NoClient, args |-> <<>>, extra |-> <<>>]

NoLog == [subject |-> <<>>, value |-> <<>>, text |-> <<>>]

NoPkce == [entry |-> "", num_bytes |-> 0, outcome |-> "none", assertion |-> 0, len |-> 0]

NoAuthz ==
    [built |-> FALSE, entry |-> "", client |-> NoClient, state |-> None,
     state_fn_calls |-> 0, extra |-> <<>>, url |-> Url(<<>>, <<>>)]

\* nothing borrows the client: a RequestBuilder, and the future of its
\* execute, hold references into the client as long as they live, and the
\* builder methods take the client by value.  An authorization URL and the
\* result of an exchange are owned by the caller and borrow nothing.
Quiescent == \A r \in Requests : pc[r] \in {"idle", "done"}

InitWith(ids, secrets, auth_urls, token_urls) ==
    /\ \E id \in ids, secret \in secrets,
          auth_url \in auth_urls, token_url \in token_urls :
           /\ client = Client_new(id, secret, auth_url, token_url)
           /\ history = [new |-> <<id, secret, auth_url, token_url>>,
                         add_scope |-> <<>>,
                         set_auth_type |-> None,
                         set_redirect_url |-> None]
    /\ pc = [r \in Requests |-> "idle"]
    /\ builder = [r \in Requests |-> NoBuilder]
    /\ calls = [r \in Requests |-> 0]
    /\ grant = [r \in Requests |-> NoGrant]
    /\ http = [r \in Requests |-> <<>>]
    /\ response = [r \in Requests |-> NoResponse]
    /\ result = [r \in Requests |-> NoOutcome]
    /\ authz = NoAuthz
    /\ log = NoLog
    /\ pkce = NoPkce

OptionOf(S) == {None} \cup {Some(x) : x \in S}

(***************************************************************************)
(* The builder methods of Client.                                          *)
(***************************************************************************)
AddScope(scope) ==
    /\ Quiescent
    /\ Len(client.scopes) < MaxScopes
    /\ client' = add_scope(client, scope)
    /\ history' = [history EXCEPT !.add_scope = Append(@, scope)]
    /\ UNCHANGED <<pc, builder, calls, grant, http, response, result, authz, log, pkce>>

SetAuthType(auth_type) ==
    /\ Quiescent
    /\ client' = set_auth_type(client, auth_type)
    /\ history' = [history EXCEPT !.set_auth_type = Some(auth_type)]
    /\ UNCHANGED <<pc, builder, calls, grant, http, response, result, authz, log, pkce>>

SetRedirectUrl(redirect_url) ==
    /\ Quiescent
    /\ client' = set_redirect_url(client, redirect_url)
    /\ history' = [history EXCEPT !.set_redirect_url = Some(redirect_url)]
    /\ UNCHANGED <<pc, builder, calls, grant, http, response, result, authz, log, pkce>>

(***************************************************************************)
(* The authorization URL.  extra is what the caller holds to extend the    *)
(* URL with; no entry point takes it.                                      *)
(***************************************************************************)
ExtraParams == {<<>>} \cup {authorize_url_params(v) : v \in Verifiers}

\* Client::authorize_url
AuthorizeUrl(state, extra) ==
    /\ authz' = [built |-> TRUE, entry |-> "authorize_url", client |-> client,
                 state |-> Some(state), state_fn_calls |-> 1, extra |-> extra,
                 url |-> authorize_url_impl(client, k_code, Some(state))]
    /\ UNCHANGED <<client, history, pc, builder, calls, grant, http, response, result, log, pkce>>

\* (a mutant of AuthorizeUrlImplicit: the token is returned to the caller
\* but not handed to authorize_url_impl)
AuthorizeUrlImplicitWithoutState(state, extra) ==
    /\ authz' = [built |-> TRUE, entry |-> "authorize_url_implicit", client |-> client,
                 state |-> Some(state), state_fn_calls |-> 1, extra |-> extra,
                 url |-> authorize_url_impl(client, v_token, None)]
    /\ UNCHANGED <<client, history, pc, builder, calls, grant, http, response, result, log, pkce>>

\* Client::authorize_url_implicit
AuthorizeUrlImplicit(state, extra) ==
    /\ authz' = [built |-> TRUE, entry |-> "authorize_url_implicit", client |-> client,
                 state |-> Some(state), state_fn_calls |-> 1, extra |-> extra,
                 url |-> authorize_url_impl(client, v_token, Some(state))]
    /\ UNCHANGED <<client, history, pc, builder, calls, grant, http, response, result, log, pkce>>

\* insecure::authorize_url
InsecureAuthorizeUrl(extra) ==
    /\ authz' = [built |-> TRUE, entry |-> "insecure::authorize_url", client |-> client,
                 state |-> None, state_fn_calls |-> 0, extra |-> extra,
                 url |-> authorize_url_impl(client, k_code, None)]
    /\ UNCHANGED <<client, history, pc, builder, calls, grant, http, response, result, log, pkce>>

\* insecure::authorize_url_implicit
InsecureAuthorizeUrlImplicit(extra) ==
    /\ authz' = [built |-> TRUE, entry |-> "insecure::authorize_url_implicit", client |-> client,
                 state |-> None, state_fn_calls |-> 0, extra |-> extra,
                 url |-> authorize_url_impl(client, v_token, None)]
    /\ UNCHANGED <<client, history, pc, builder, calls, grant, http, response, result, log, pkce>>

\* the caller lets go of the URL
DropUrl ==
    /\ authz.built
    /\ authz' = NoAuthz
    /\ UNCHANGED <<client, history, pc, builder, calls, grant, http, response, result, log, pkce>>

(***************************************************************************)
(* A token exchange r: an entry point builds the request, param() extends  *)
(* it, execute makes the future, and the future runs when it is polled: to *)
(* its first await (send: the request is with the transport), from there   *)
(* to its second (bytes: the status is there, the body is awaited), and    *)
(* from there to its result.  The caller may drop the builder, the future  *)
(* or the result at any of these points.                                   *)
(***************************************************************************)
Begin(r, entry, args, b) ==
    /\ pc[r] = "idle"
    /\ builder' = [builder EXCEPT ![r] = b]
    /\ grant' = [grant EXCEPT ![r] = [entry |-> entry, client |-> client,
                                      args |-> args, extra |-> <<>>]]
    /\ pc' = [pc EXCEPT ![r] = "built"]
    /\ UNCHANGED <<client, history, calls, http, response, result, authz, log, pkce>>

ExchangeCode(r, code) ==
    Begin(r, "exchange_code", <<code>>, exchange_code(client, code))

ExchangePassword(r, username, password) ==
    Begin(r, "exchange_password", <<username, password>>,
          exchange_password(client, username, password))

ExchangeClientCredentials(r) ==
    Begin(r, "exchange_client_credentials", <<>>,
          exchange_client_credentials(client))

ExchangeRefreshToken(r, refresh_token) ==
    Begin(r, "exchange_refresh_token", <<refresh_token>>,
          exchange_refresh_token(client, refresh_token))

\* (a mutant of Param: the parameters live in one place that the requests
\* in progress share)
ParamShared(r, key, value) ==
    /\ pc[r] = "built"
    /\ calls[r] < MaxParams
    /\ builder' = [q \in Requests |->
                       IF pc[q] = "built" THEN param(builder[q], key, value)
                       ELSE builder[q]]
    /\ calls' = [calls EXCEPT ![r] = @ + 1]
    /\ grant' = [grant EXCEPT ![r].extra = Append(@, <<key, value>>)]
    /\ UNCHANGED <<client, history, pc, http, response, result, authz, log, pkce>>

Param(r, key, value) ==
    /\ pc[r] = "built"
    /\ calls[r] < MaxParams
    /\ builder' = [builder EXCEPT ![r] = param(@, key, value)]
    /\ calls' = [calls EXCEPT ![r] = @ + 1]
    /\ grant' = [grant EXCEPT ![r].extra = Append(@, <<key, value>>)]
    /\ UNCHANGED <<client, history, pc, http, response, result, authz, log, pkce>>

\* RequestBuilder::execute, the call: an async fn, it takes the builder and
\* returns the future; nothing of its body has run
Execute(r) ==
    /\ pc[r] = "built"
    /\ pc' = [pc EXCEPT ![r] = "called"]
    /\ UNCHANGED <<client, history, builder, calls, grant, http, response, result, authz, log, pkce>>

\* RequestBuilder::execute, the first poll: to request.send().await
ExecuteSend(r) ==
    /\ pc[r] = "called"
    /\ LET token_url == token_url_or_panic(builder[r])
       IN  IF token_url.ok
           THEN /\ http' = [http EXCEPT ![r] = Append(@, build_request(builder[r]))]
                /\ pc' = [pc EXCEPT ![r] = "awaiting"]
                /\ UNCHANGED result
           ELSE /\ result' = [result EXCEPT ![r] = Panic(token_url.err)]
                /\ pc' = [pc EXCEPT ![r] = "done"]
                /\ UNCHANGED http
    /\ UNCHANGED <<client, history, builder, calls, grant, response, authz, log, pkce>>

\* what execute knows of the answer resp when send() is ready: that it
\* failed, or the status
head_of(resp) ==
    IF resp.outcome = "send_error" THEN resp ELSE StatusReceived(resp.status)

\* (a mutant of ExecuteSendReady: a request the transport failed to send is
\* sent again)
ExecuteSendReadyRetrying(r, resp) ==
    /\ pc[r] = "awaiting"
    /\ IF resp.outcome = "send_error" /\ Len(http[r]) < 2
       THEN /\ http' = [http EXCEPT ![r] = Append(@, build_request(builder[r]))]
            /\ UNCHANGED <<pc, response, result>>
       ELSE IF resp.outcome = "send_error"
       THEN /\ response' = [response EXCEPT ![r] = resp]
            /\ result' = [result EXCEPT ![r] = handle_response(resp)]
            /\ pc' = [pc EXCEPT ![r] = "done"]
            /\ UNCHANGED http
       ELSE /\ response' = [response EXCEPT ![r] = head_of(resp)]
            /\ pc' = [pc EXCEPT ![r] = "reading"]
            /\ UNCHANGED <<http, result>>
    /\ UNCHANGED <<client, history, builder, calls, grant, authz, log, pkce>>

\* RequestBuilder::execute, the poll in which send() is ready: a failure is
\* returned, and with an answer execute reads the status and goes on to
\* res.bytes().await
ExecuteSendReady(r, resp) ==
    /\ pc[r] = "awaiting"
    /\ IF resp.outcome = "send_error"
       THEN /\ response' = [response EXCEPT ![r] = resp]
            /\ result' = [result EXCEPT ![r] = handle_response(resp)]
            /\ pc' = [pc EXCEPT ![r] = "done"]
       ELSE /\ response' = [response EXCEPT ![r] = head_of(resp)]
            /\ pc' = [pc EXCEPT ![r] = "reading"]
            /\ UNCHANGED result
    /\ UNCHANGED <<client, history, builder, calls, grant, http, authz, log, pkce>>

\* RequestBuilder::execute, the poll in which bytes() is ready: the body of
\* the answer whose status was read, or the failure to read it
ExecuteBytesReady(r, resp) ==
    /\ pc[r] = "reading"
    /\ resp.outcome \in {"body_error", "delivered"}
    /\ resp.status = response[r].status
    /\ response' = [response EXCEPT ![r] = resp]
    /\ result' = [result EXCEPT ![r] = handle_response(resp)]
    /\ pc' = [pc EXCEPT ![r] = "done"]
    /\ UNCHANGED <<client, history, builder, calls, grant, http, authz, log, pkce>>

\* the caller lets go of what it holds of exchange r: the RequestBuilder it
\* never executed, the future of execute (before its first poll or at one
\* of its awaits, which ends the exchange without a result), or the result
Drop(r) ==
    /\ pc[r] # "idle"
    /\ pc' = [pc EXCEPT ![r] = "idle"]
    /\ builder' = [builder EXCEPT ![r] = NoBuilder]
    /\ calls' = [calls EXCEPT ![r] = 0]
    /\ grant' = [grant EXCEPT ![r] = NoGrant]
    /\ http' = [http EXCEPT ![r] = <<>>]
    /\ response' = [response EXCEPT ![r] = NoResponse]
    /\ result' = [result EXCEPT ![r] = NoOutcome]
    /\ UNCHANGED <<client, history, authz, log, pkce>>

(***************************************************************************)
(* A caller formats a value with {:?}.                                     *)
(***************************************************************************)
\* the secrets the callers wrap
Secrets == {<<"s", "&", "c">>, <<"h", "u", "n", "t", "e", "r", "2">>}

DebugSecret(name, secret) ==
    /\ log' = [subject |-> name, value |-> secret, text |-> secret_fmt(name, secret)]
    /\ UNCHANGED <<client, history, pc, builder, calls, grant, http, response, result, authz, pkce>>

DebugClient ==
    /\ log' = [subject |-> <<"C", "l", "i", "e", "n", "t">>, value |-> client, text |-> Client_fmt(client)]
    /\ UNCHANGED <<client, history, pc, builder, calls, grant, http, response, result, authz, pkce>>

DebugTokenResponse(r) ==
    /\ result[r].kind = "Ok"
    /\ log' = [subject |-> <<"S", "t", "a", "n", "d", "a", "r", "d", "T", "o", "k", "e", "n", "R", "e", "s", "p", "o", "n", "s", "e">>, value |-> result[r].value,
               text |-> StandardTokenResponse_fmt(result[r].value)]
    /\ UNCHANGED <<client, history, pc, builder, calls, grant, http, response, result, authz, pkce>>

(***************************************************************************)
(* A caller generates a PKCE verifier.                                     *)
(***************************************************************************)
NewRandom ==
    /\ pkce' = [entry |-> "new_random", num_bytes |-> 32,
                outcome |-> new_random.outcome,
                assertion |-> new_random.assertion, len |-> new_random.len]
    /\ UNCHANGED <<client, history, pc, builder, calls, grant, http, response, result, authz, log>>

NewRandomLen(num_bytes) ==
    /\ pkce' = [entry |-> "new_random_len", num_bytes |-> num_bytes,
                outcome |-> new_random_len(num_bytes).outcome,
                assertion |-> new_random_len(num_bytes).assertion,
                len |-> new_random_len(num_bytes).len]
    /\ UNCHANGED <<client, history, pc, builder, calls, grant, http, response, result, authz, log>>

(***************************************************************************)
(* The specifications.                                                     *)
(***************************************************************************)
Configure ==
    \/ \E scope \in ScopeValues : AddScope(scope)
    \/ \E auth_type \in AuthType : SetAuthType(auth_type)
    \/ \E redirect_url \in RedirectUrls : SetRedirectUrl(redirect_url)

Exchange(r) ==
    \/ \E code \in AuthorizationCodes : ExchangeCode(r, code)
    \/ \E username \in Usernames, password \in Passwords :
           ExchangePassword(r, username, password)
    \/ ExchangeClientCredentials(r)
    \/ \E refresh_token \in RefreshTokens : ExchangeRefreshToken(r, refresh_token)
    \/ \E kv \in ParamPairs : Param(r, kv[1], kv[2])
    \/ Execute(r)
    \/ ExecuteSend(r)
    \/ Drop(r)

\* Spec: a client is configured and one token exchange at a time runs on it
Init == InitWith(ClientIds, OptionOf(ClientSecrets),
                 {Url(<<"h", "t", "t", "p", ":", "/", "/", "a", "u", "t", "h", "o", "r", "i", "z", "e", "/">>, <<>>)}, OptionOf(TokenUrls))

Next ==
    \/ Configure
    \/ Exchange("r1")
    \/ \E resp \in CoreResponses : ExecuteSendReady("r1", resp)
    \/ \E resp \in CoreResponses : ExecuteBytesReady("r1", resp)

Spec == Init /\ [][Next]_vars

\* SpecResponse: code exchanges against a token endpoint that answers anything
InitResponse == InitWith(ClientIds, OptionOf(ClientSecrets),
                         {Url(<<"h", "t", "t", "p", ":", "/", "/", "a", "u", "t", "h", "o", "r", "i", "z", "e", "/">>, <<>>)}, {Some(u) : u \in TokenUrls})

NextResponse ==
    \/ \E code \in AuthorizationCodes : ExchangeCode("r1", code)
    \/ Execute("r1")
    \/ ExecuteSend("r1")
    \/ \E resp \in Responses : ExecuteSendReady("r1", resp)
    \/ \E resp \in Responses : ExecuteBytesReady("r1", resp)
    \/ Drop("r1")

SpecResponse == InitResponse /\ [][NextResponse]_vars

\* SpecUrl: a client is configured and authorization URLs are built from it
InitUrl == InitWith(ClientIds, {None}, AuthUrls, {None})

NextUrl ==
    \/ Configure
    \/ \E state \in CsrfTokens, extra \in ExtraParams : AuthorizeUrl(state, extra)
    \/ \E state \in CsrfTokens, extra \in ExtraParams : AuthorizeUrlImplicit(state, extra)
    \/ \E extra \in ExtraParams : InsecureAuthorizeUrl(extra)
    \/ \E extra \in ExtraParams : InsecureAuthorizeUrlImplicit(extra)
    \/ DropUrl

SpecUrl == InitUrl /\ [][NextUrl]_vars

\* SpecDebug: clients, secrets and token responses are formatted with {:?}
DebugBodies ==
    {JsonBody(<<<<k_access_token, JStr(s)>>, <<k_token_type, JStr(<<"b", "e", "a", "r", "e", "r">>)>>>>) : s \in Secrets}
    \cup {JsonBody(<<<<k_access_token, JStr(s)>>, <<k_token_type, JStr(<<"m", "a", "c">>)>>,
                     <<k_expires_in, JNum(3600)>>, <<k_refresh_token, JStr(s)>>,
                     <<k_scope, JStr(<<"r", "e", "a", "d", " ", "w", "r", "i", "t", "e">>)>>>>) : s \in Secrets}

InitDebug == InitWith(ClientIds, OptionOf(Secrets), AuthUrls,
                      OptionOf(TokenUrls))

NextDebug ==
    \/ AddScope(<<"r", "e", "a", "d">>)
    \/ \E redirect_url \in RedirectUrls : SetRedirectUrl(redirect_url)
    \/ \E code \in AuthorizationCodes : ExchangeCode("r1", code)
    \/ Execute("r1")
    \/ ExecuteSend("r1")
    \/ \E body \in DebugBodies : ExecuteSendReady("r1", Delivered(200, body))
    \/ \E body \in DebugBodies : ExecuteBytesReady("r1", Delivered(200, body))
    \/ Drop("r1")
    \/ \E name \in SecretTypes, secret \in Secrets : DebugSecret(name, secret)
    \/ DebugClient
    \/ DebugTokenResponse("r1")

SpecDebug == InitDebug /\ [][NextDebug]_vars

\* SpecShared: two token exchanges run at once on one client
SharedResponses ==
    {Delivered(200, JsonBody(<<<<k_access_token, JStr(<<"a", "b", "c">>)>>,
                               <<k_token_type, JStr(<<"b", "e", "a", "r", "e", "r">>)>>>>)),
     Delivered(400, JsonBody(<<<<k_error, JStr(<<"i", "n", "v", "a", "l", "i", "d", "_", "g", "r", "a", "n", "t">>)>>>>))}

InitShared == InitWith(ClientIds, {Some(s) : s \in ClientSecrets},
                       {Url(<<"h", "t", "t", "p", ":", "/", "/", "a", "u", "t", "h", "o", "r", "i", "z", "e", "/">>, <<>>)}, {Some(u) : u \in TokenUrls})

NextShared ==
    \/ \E auth_type \in AuthType : SetAuthType(auth_type)
    \/ \E redirect_url \in RedirectUrls : SetRedirectUrl(redirect_url)
    \/ \E r \in Requests :
           \/ \E code \in AuthorizationCodes : ExchangeCode(r, code)
           \/ \E refresh_token \in RefreshTokens : ExchangeRefreshToken(r, refresh_token)
           \/ \E kv \in ParamPairs : Param(r, kv[1], kv[2])
           \/ Execute(r)
           \/ ExecuteSend(r)
           \/ \E resp \in SharedResponses : ExecuteSendReady(r, resp)
           \/ \E resp \in SharedResponses : ExecuteBytesReady(r, resp)
           \/ Drop(r)

SpecShared == InitShared /\ [][NextShared]_vars

\* SpecPkce: PKCE verifiers are generated
InitPkce == InitWith(ClientIds, {None}, {Url(<<"h", "t", "t", "p", ":", "/", "/", "a", "u", "t", "h", "o", "r", "i", "z", "e", "/">>, <<>>)}, {None})

NextPkce ==
    \/ NewRandom
    \/ \E num_bytes \in 0..MaxNumBytes : NewRandomLen(num_bytes)

SpecPkce == InitPkce /\ [][NextPkce]_vars

(***************************************************************************)
(* What the claims speak of.                                               *)
(***************************************************************************)
\* the fields of a form body, read back from its text
form_fields(body) ==
    LET parts == split(body, "&")
    IN  [i \in DOMAIN parts |->
            LET kv == split(parts[i], "=") IN <<kv[1], kv[Len(kv)]>>]

\* how many fields of a form carry the key
KeyCount(fields, key) == Cardinality({i \in DOMAIN fields : fields[i][1] = key})

\* how many of the accumulated parameters carry the key
ParamCount(params, key) == Cardinality({i \in DOMAIN params : params[i][1] = key})

\* the characters HexOf knows
EscapedChars == {":", "/", "&", "=", "+", "%", "?", "#"}

\* what the receiver of a form-encoded text reads back (the inverse of
\* byte_serialize): + is a space, %XY is the character of that code
RECURSIVE percent_decode(_)
percent_decode(s) ==
    IF s = <<>> THEN <<>>
    ELSE IF s[1] = "+" THEN <<" ">> \o percent_decode(Tail(s))
    ELSE IF /\ s[1] = "%"
            /\ Len(s) >= 3
            /\ \E c \in EscapedChars : HexOf(c) = SubSeq(s, 2, 3)
         THEN <<CHOOSE c \in EscapedChars : HexOf(c) = SubSeq(s, 2, 3)>>
                  \o percent_decode(SubSeq(s, 4, Len(s)))
         ELSE <<s[1]>> \o percent_decode(Tail(s))

\* the positions of the query that carry the key
KeyPositions(query, key) ==
    {i \in DOMAIN query : percent_decode(query[i][1]) = key}

\* the fields of a form body as the receiver reads them back
decoded_fields(body) ==
    LET fields == form_fields(body)
    IN  [i \in DOMAIN fields |->
            <<percent_decode(fields[i][1]), percent_decode(fields[i][2])>>]

\* the text holds the piece somewhere
contains(text, piece) ==
    \E i \in 0..(Len(text) - Len(piece)) :
        SubSeq(text, i + 1, i + Len(piece)) = piece

\* the request an entry point builds from the client and the arguments it
\* was called with, extended by the caller's own param() calls
own_builder(c, g) ==
    LET built ==
            CASE g.entry = "exchange_code" -> exchange_code(c, g.args[1])
              [] g.entry = "exchange_password" ->
                     exchange_password(c, g.args[1], g.args[2])
              [] g.entry = "exchange_client_credentials" ->
                     exchange_client_credentials(c)
              [] g.entry = "exchange_refresh_token" ->
                     exchange_refresh_token(c, g.args[1])
    IN  [built EXCEPT !.params = @ \o g.extra]

\* two texts are equal up to the case of their ASCII letters
eq_ignore_ascii_case(a, b) ==
    /\ Len(a) = Len(b)
    /\ \A i \in DOMAIN a :
           \/ a[i] = b[i]
           \/ \E k \in DOMAIN LowerChars :
                  {a[i], b[i]} = {LowerChars[k], UpperChars[k]}

\* exchange r handed a request to the transport
Sent(r) == http[r] # <<>>

\* exchange r is over and the transport delivered a status and a body
Answered(r) == pc[r] = "done" /\ response[r].outcome = "delivered"

\* exchange r was answered with a status that is no success and a JSON
\* object whose one member is error, a string that spells one of the six
\* codes in some mix of upper and lower case
AnsweredWithErrorCode(r) ==
    /\ Answered(r)
    /\ ~is_success(response[r].status)
    /\ response[r].body.kind = "json"
    /\ Len(response[r].body.members) = 1
    /\ response[r].body.members[1][1] = k_error
    /\ response[r].body.members[1][2].ty = "str"
    /\ \E w \in WireErrorCodes :
           eq_ignore_ascii_case(response[r].body.members[1][2].s, w)

(***************************************************************************)
(* C1: executing a token request on a configuration with no token endpoint *)
(* returns the error kind Other to the caller; it does not panic, and no   *)
(* HTTP request is handed to the transport.                                *)
(***************************************************************************)
C1_MissingTokenUrlReturnsOther ==
    \A r \in Requests :
        (pc[r] = "done" /\ ~builder[r].token_url.some)
            => (result[r].kind = "Other" /\ http[r] = <<>>)

(***************************************************************************)
(* C2, as stated: in every request sent, with BasicAuth there is an        *)
(* Authorization: Basic header and no client_id or client_secret field in  *)
(* the body; with RequestBody the body has client_id, it has client_secret *)
(* iff a secret is configured, and there is no Authorization header.       *)
(***************************************************************************)
C2_CredentialsInOnePlace ==
    \A r \in Requests :
        Sent(r) =>
            LET req == http[r][1]
                fields == form_fields(req.body)
            IN  IF builder[r].auth_type = "BasicAuth"
                THEN /\ req.authorization.some
                     /\ KeyCount(fields, k_client_id) = 0
                     /\ KeyCount(fields, k_client_secret) = 0
                ELSE /\ ~req.authorization.some
                     /\ KeyCount(fields, k_client_id) >= 1
                     /\ (KeyCount(fields, k_client_secret) >= 1
                            <=> builder[r].client_secret.some)

(***************************************************************************)
(* C2, amended: in every request sent, execute puts the credentials of the *)
(* client in one place.  With BasicAuth there is an Authorization: Basic   *)
(* header of the encoded id and secret, and the body has no client_id or   *)
(* client_secret field but those the caller added with param().  With     *)
(* RequestBody there is no Authorization header, the body starts with      *)
(* client_id, followed by client_secret iff a secret is configured, and    *)
(* its other client_id and client_secret fields are those the caller       *)
(* added with param().                                                     *)
(***************************************************************************)
C2_CredentialsInOnePlaceBesideParams ==
    \A r \in Requests :
        Sent(r) =>
            LET req == http[r][1]
                b == builder[r]
                fields == form_fields(req.body)
                secret == IF b.client_secret.some THEN 1 ELSE 0
            IN  IF b.auth_type = "BasicAuth"
                THEN /\ req.authorization.some
                     /\ req.authorization.v.scheme = "Basic"
                     /\ req.authorization.v.username = url_encode(b.client_id)
                     /\ req.authorization.v.password.some = b.client_secret.some
                     /\ KeyCount(fields, k_client_id) = ParamCount(b.params, k_client_id)
                     /\ KeyCount(fields, k_client_secret)
                            = ParamCount(b.params, k_client_secret)
                ELSE /\ ~req.authorization.some
                     /\ fields[1] = <<k_client_id, url_encode(b.client_id)>>
                     /\ b.client_secret.some
                            => fields[2] = <<k_client_secret, url_encode(b.client_secret.v)>>
                     /\ KeyCount(fields, k_client_id)
                            = 1 + ParamCount(b.params, k_client_id)
                     /\ KeyCount(fields, k_client_secret)
                            = secret + ParamCount(b.params, k_client_secret)

C2_Witness ==
    \E r \in Requests :
        /\ Sent(r)
        /\ builder[r].auth_type = "RequestBody"
        /\ builder[r].client_secret.some
        /\ ParamCount(builder[r].params, k_client_id) = 1

(***************************************************************************)
(* C3: an execute with a token endpoint hands exactly one POST to the      *)
(* transport and yields exactly one result: nothing is sent before the     *)
(* future of execute runs, one request is with the transport while execute *)
(* waits for the answer or for its body, and when it is over still one     *)
(* request was sent, also after a transport failure, which is returned as  *)
(* the Client error kind.                                                  *)
(***************************************************************************)
C3_OneRequestOneResult ==
    \A r \in Requests :
        /\ pc[r] \in {"idle", "built", "called"}
               => (http[r] = <<>> /\ result[r].kind = "None")
        /\ pc[r] \in {"awaiting", "reading"}
               => (Len(http[r]) = 1 /\ http[r][1].method = "POST"
                   /\ result[r].kind = "None")
        /\ (pc[r] = "done" /\ builder[r].token_url.some)
               => /\ Len(http[r]) = 1
                  /\ http[r][1].method = "POST"
                  /\ http[r][1].url = url_as_str(builder[r].token_url.v)
                  /\ result[r].kind \in {"Ok", "ServerResponse", "Client", "Parse", "Other"}
                  /\ response[r].outcome \in {"send_error", "body_error"}
                         <=> result[r].kind = "Client"

C3_Witness ==
    \E r \in Requests :
        /\ pc[r] = "done"
        /\ response[r].outcome = "send_error"
        /\ result[r].kind = "Client"
        /\ Len(http[r]) = 1

(***************************************************************************)
(* C4: a non-2xx response whose JSON body has an error code string that is *)
(* none of the six codes of RFC 6749, in any spelling of upper and lower   *)
(* case, yields a ServerResponse error whose field is Other(code), not a   *)
(* Parse error.                                                            *)
(***************************************************************************)
C4_UnrecognizedCodeIsOther ==
    \A r \in Requests :
        (/\ Answered(r)
         /\ ~is_success(response[r].status)
         /\ response[r].body.kind = "json"
         /\ Len(response[r].body.members) = 1
         /\ response[r].body.members[1][1] = k_error
         /\ response[r].body.members[1][2].ty = "str"
         /\ to_lowercase(response[r].body.members[1][2].s) \notin WireErrorCodes)
            => /\ result[r].kind = "ServerResponse"
               /\ result[r].value.error
                      = ErrorField(ErrorFieldOther, response[r].body.members[1][2].s)

(***************************************************************************)
(* C5: a non-2xx response whose body is a well-formed error response with  *)
(* one of the six codes yields the ServerResponse error kind whose error   *)
(* field is the variant of that code, with error_description and error_uri *)
(* absent when they are not on the wire.  The error response is a JSON     *)
(* object, or a JSON array of the fields in the order error,               *)
(* error_description, error_uri, which the parser takes as well.           *)
(***************************************************************************)
\* the variant of ErrorField that RFC 6749 names by the code
VariantOfCode(code) ==
    CASE code = <<"i", "n", "v", "a", "l", "i", "d", "_", "r", "e", "q", "u", "e", "s", "t">> -> <<"I", "n", "v", "a", "l", "i", "d", "R", "e", "q", "u", "e", "s", "t">>
      [] code = <<"i", "n", "v", "a", "l", "i", "d", "_", "c", "l", "i", "e", "n", "t">> -> <<"I", "n", "v", "a", "l", "i", "d", "C", "l", "i", "e", "n", "t">>
      [] code = <<"i", "n", "v", "a", "l", "i", "d", "_", "g", "r", "a", "n", "t">> -> <<"I", "n", "v", "a", "l", "i", "d", "G", "r", "a", "n", "t">>
      [] code = <<"u", "n", "a", "u", "t", "h", "o", "r", "i", "z", "e", "d", "_", "c", "l", "i", "e", "n", "t">> -> <<"U", "n", "a", "u", "t", "h", "o", "r", "i", "z", "e", "d", "C", "l", "i", "e", "n", "t">>
      [] code = <<"u", "n", "s", "u", "p", "p", "o", "r", "t", "e", "d", "_", "g", "r", "a", "n", "t", "_", "t", "y", "p", "e">> -> <<"U", "n", "s", "u", "p", "p", "o", "r", "t", "e", "d", "G", "r", "a", "n", "t", "T", "y", "p", "e">>
      [] code = <<"i", "n", "v", "a", "l", "i", "d", "_", "s", "c", "o", "p", "e">> -> <<"I", "n", "v", "a", "l", "i", "d", "S", "c", "o", "p", "e">>

\* the members of the key are none, or one that is a string or null
OptionalText(members, key) ==
    /\ Len(field(members, key)) <= 1
    /\ \A i \in DOMAIN members :
           members[i][1] = key => members[i][2].ty \in {"str", "null"}

\* a JSON object with one error member, a string that is one of the six
\* codes, and at most a description and a URI beside it
WellFormedError(body) ==
    /\ body.kind = "json"
    /\ Len(field(body.members, k_error)) = 1
    /\ field(body.members, k_error)[1][2].ty = "str"
    /\ field(body.members, k_error)[1][2].s \in WireErrorCodes
    /\ OptionalText(body.members, k_error_description)
    /\ OptionalText(body.members, k_error_uri)

\* a JSON array of one to three items: one of the six codes, and at most a
\* description and a URI after it
WellFormedErrorArray(body) ==
    /\ body.kind = "array"
    /\ Len(body.members) \in 1..3
    /\ body.members[1].ty = "str"
    /\ body.members[1].s \in WireErrorCodes
    /\ \A i \in 2..Len(body.members) : body.members[i].ty \in {"str", "null"}

C5_ErrorResponseIsServerResponse ==
    \A r \in Requests :
        /\ (Answered(r) /\ ~is_success(response[r].status)
             /\ WellFormedError(response[r].body))
                => LET members == response[r].body.members
                       code == field(members, k_error)[1][2].s
                   IN  /\ result[r].kind = "ServerResponse"
                       /\ result[r].value.error = ErrorField(VariantOfCode(code), <<>>)
                       /\ field(members, k_error_description) = <<>>
                              => ~result[r].value.error_description.some
                       /\ field(members, k_error_uri) = <<>>
                              => ~result[r].value.error_uri.some
        /\ (Answered(r) /\ ~is_success(response[r].status)
             /\ WellFormedErrorArray(response[r].body))
                => LET items == response[r].body.members
                   IN  /\ result[r].kind = "ServerResponse"
                       /\ result[r].value.error
                              = ErrorField(VariantOfCode(items[1].s), <<>>)
                       /\ Len(items) < 2 => ~result[r].value.error_description.some
                       /\ Len(items) < 3 => ~result[r].value.error_uri.some

C5_Witness ==
    \E r \in Requests :
        /\ Answered(r)
        /\ response[r].status = 400
        /\ response[r].body = JsonBody(<<<<k_error, JStr(<<"i", "n", "v", "a", "l", "i", "d", "_", "g", "r", "a", "n", "t">>)>>>>)
        /\ result[r].kind = "ServerResponse"
        /\ result[r].value.error.variant = <<"I", "n", "v", "a", "l", "i", "d", "G", "r", "a", "n", "t">>
        /\ ~result[r].value.error_description.some

(***************************************************************************)
(* C6: a non-2xx response with an empty body yields the Other error kind   *)
(* with the empty error response message, and none of the other outcomes.  *)
(***************************************************************************)
C6_EmptyErrorBodyIsOther ==
    \A r \in Requests :
        (Answered(r) /\ ~is_success(response[r].status)
         /\ response[r].body = EmptyBody)
            => /\ result[r].kind = "Other"
               /\ result[r].msg = "Server returned empty error response"

C6_Witness ==
    \E r \in Requests :
        /\ Answered(r)
        /\ response[r].status = 500
        /\ response[r].body = EmptyBody
        /\ result[r].kind = "Other"

(***************************************************************************)
(* C7: a 2xx response with an empty body yields the Other error kind with  *)
(* the empty response message; it is not parsed and it is no success.      *)
(***************************************************************************)
C7_EmptySuccessBodyIsOther ==
    \A r \in Requests :
        (Answered(r) /\ is_success(response[r].status)
         /\ response[r].body = EmptyBody)
            => /\ result[r].kind = "Other"
               /\ result[r].msg = "Server returned empty response body"

C7_Witness ==
    \E r \in Requests :
        /\ Answered(r)
        /\ response[r].status = 299
        /\ response[r].body = EmptyBody
        /\ result[r].kind = "Other"

(***************************************************************************)
(* C8: whenever execute returns a Parse error, for a success body or an    *)
(* error body, the bytes in the error are the body the transport           *)
(* delivered, whole and unchanged.                                         *)
(***************************************************************************)
C8_ParseErrorKeepsBody ==
    \A r \in Requests :
        (pc[r] = "done" /\ result[r].kind = "Parse")
            => /\ response[r].outcome = "delivered"
               /\ result[r].bytes = response[r].body

C8_Witness ==
    \E r \in Requests :
        /\ pc[r] = "done"
        /\ result[r].kind = "Parse"
        /\ ~is_success(response[r].status)
        /\ response[r].body.kind = "json"
        /\ response[r].body.members # <<>>
        /\ result[r].bytes = response[r].body

(***************************************************************************)
(* C9: the query of an authorization URL is the query of the configured    *)
(* auth URL followed by response_type, client_id, redirect_uri (if one is  *)
(* configured), scope (if the joined scopes are not empty) and state (if   *)
(* one is supplied), in this order and with nothing between them.          *)
(***************************************************************************)
C9_QueryParameterOrder ==
    authz.built =>
        LET self == authz.client
            old == self.auth_url.pairs
            query == authz.url.pairs
            added == [i \in 1..(Len(query) - Len(old)) |-> query[Len(old) + i][1]]
            scoped == Len(self.scopes) >= 2
                          \/ \E i \in DOMAIN self.scopes : self.scopes[i] # <<>>
            present(k) == \/ k \in {k_response_type, k_client_id}
                          \/ k = k_redirect_uri /\ self.redirect_url.some
                          \/ k = k_scope /\ scoped
                          \/ k = k_state /\ authz.state.some
        IN  /\ authz.url.base = self.auth_url.base
            /\ Len(query) >= Len(old)
            /\ SubSeq(query, 1, Len(old)) = old
            /\ added = SelectSeq(<<k_response_type, k_client_id, k_redirect_uri,
                                   k_scope, k_state>>, present)

C9_Witness ==
    /\ authz.built
    /\ authz.client.auth_url.pairs # <<>>
    /\ authz.client.redirect_url.some
    /\ Len(authz.client.scopes) = 2
    /\ authz.state.some
    /\ Len(authz.url.pairs) = Len(authz.client.auth_url.pairs) + 5

(***************************************************************************)
(* C10: building an authorization URL takes the extra parameters the       *)
(* caller has (the PKCE pair, say) and appends all of them to the query,   *)
(* after the state parameter, in the order supplied.                       *)
(***************************************************************************)
C10_ExtraParamsAppended ==
    authz.built =>
        LET query == authz.url.pairs
            n == Len(authz.extra)
        IN  /\ Len(query) >= n
            /\ SubSeq(query, Len(query) - n + 1, Len(query))
                   = append_pairs(<<>>, authz.extra)

(***************************************************************************)
(* C11, as stated: an authorization URL has a state parameter exactly when *)
(* it was built by authorize_url or authorize_url_implicit.  There the     *)
(* state function was called once, the URL has one state parameter, and    *)
(* its value, read back from the query, is the secret of the CsrfToken     *)
(* that was returned with the URL.  The URLs of insecure::authorize_url    *)
(* and insecure::authorize_url_implicit have no state parameter.           *)
(***************************************************************************)
C11_StateIffSecureEntryPoint ==
    authz.built =>
        LET query == authz.url.pairs
            states == KeyPositions(query, k_state)
            secure == authz.entry \in {"authorize_url", "authorize_url_implicit"}
        IN  /\ authz.entry \in {"authorize_url", "authorize_url_implicit",
                                "insecure::authorize_url",
                                "insecure::authorize_url_implicit"}
            /\ (states # {}) <=> secure
            /\ secure =>
                   /\ authz.state_fn_calls = 1
                   /\ authz.state.some
                   /\ Cardinality(states) = 1
                   /\ \A i \in states :
                          percent_decode(query[i][2]) = authz.state.v
            /\ ~secure => authz.state_fn_calls = 0 /\ ~authz.state.some

(***************************************************************************)
(* C11, amended: an entry point appends a state parameter to the query of  *)
(* the configured auth URL exactly when it is authorize_url or             *)
(* authorize_url_implicit.  There the state function was called once, one  *)
(* state parameter is appended, it is the last parameter of the URL, and   *)
(* its value, read back from the query, is the secret of the CsrfToken     *)
(* that was returned with the URL.  insecure::authorize_url and            *)
(* insecure::authorize_url_implicit call no state function and append no   *)
(* state parameter.  The query of the configured auth URL is kept as it    *)
(* is, so the state parameters of the URL are those of that query and the  *)
(* one appended.                                                           *)
(***************************************************************************)
C11_StateAppendedIffSecureEntryPoint ==
    authz.built =>
        LET old == authz.client.auth_url.pairs
            query == authz.url.pairs
            states == KeyPositions(query, k_state)
            appended == {i \in states : i > Len(old)}
            secure == authz.entry \in {"authorize_url", "authorize_url_implicit"}
        IN  /\ authz.entry \in {"authorize_url", "authorize_url_implicit",
                                "insecure::authorize_url",
                                "insecure::authorize_url_implicit"}
            /\ Len(query) >= Len(old)
            /\ SubSeq(query, 1, Len(old)) = old
            /\ (appended # {}) <=> secure
            /\ secure =>
                   /\ authz.state_fn_calls = 1
                   /\ authz.state.some
                   /\ appended = {Len(query)}
                   /\ percent_decode(query[Len(query)][2]) = authz.state.v
            /\ ~secure => authz.state_fn_calls = 0 /\ ~authz.state.some
            /\ Cardinality(states)
                   = Cardinality(KeyPositions(old, k_state))
                         + (IF secure THEN 1 ELSE 0)

C11_Witness ==
    /\ authz.built
    /\ authz.entry = "authorize_url_implicit"
    /\ authz.state.some
    /\ authz.state.v = <<"a", "+", "b">>
    /\ KeyPositions(authz.client.auth_url.pairs, k_state) = {1}
    /\ Cardinality(KeyPositions(authz.url.pairs, k_state)) = 2
    /\ authz.url.pairs[Len(authz.url.pairs)]
           = <<k_state, <<"a", "%", "2", "B", "b">>>>

(***************************************************************************)
(* C12: an authorization URL has a scope parameter exactly when the scope  *)
(* list of the client is not empty (add_scope was called at least once),   *)
(* and then it has one, whose value, read back from the query, is the      *)
(* scopes joined by one space in the order they were added.                *)
(***************************************************************************)
C12_ScopeIffScopesConfigured ==
    authz.built =>
        LET query == authz.url.pairs
            scopes == KeyPositions(query, k_scope)
        IN  /\ (scopes # {}) <=> (authz.client.scopes # <<>>)
            /\ scopes # {} =>
                   /\ Cardinality(scopes) = 1
                   /\ \A i \in scopes :
                          percent_decode(query[i][2])
                              = join(authz.client.scopes, <<" ">>)

(***************************************************************************)
(* C13: the form body of every token request that was sent is, field by    *)
(* field as the receiver reads it back: client_id and (if there is a       *)
(* secret) client_secret when the AuthType is RequestBody and nothing when *)
(* it is BasicAuth; then the parameters of the grant and of param() as     *)
(* they were accumulated, duplicates kept, none dropped or reordered; then *)
(* redirect_uri as the last field exactly when a redirect URL is           *)
(* configured.                                                             *)
(***************************************************************************)
C13_BodyParameterOrder ==
    \A r \in Requests :
        Sent(r) =>
            LET b == builder[r]
                credentials ==
                    IF b.auth_type = "RequestBody"
                    THEN <<<<k_client_id, b.client_id>>>>
                             \o (IF b.client_secret.some
                                 THEN <<<<k_client_secret, b.client_secret.v>>>>
                                 ELSE <<>>)
                    ELSE <<>>
                redirect ==
                    IF b.redirect_url.some
                    THEN <<<<k_redirect_uri, url_as_str(b.redirect_url.v)>>>>
                    ELSE <<>>
            IN  decoded_fields(http[r][1].body) = credentials \o b.params \o redirect

C13_Witness ==
    \E r \in Requests :
        /\ Sent(r)
        /\ builder[r].auth_type = "RequestBody"
        /\ builder[r].client_secret.some
        /\ builder[r].redirect_url.some
        /\ calls[r] = 1
        /\ ParamCount(builder[r].params, k_client_id) = 1
        /\ Len(builder[r].params) = 5
        /\ KeyCount(decoded_fields(http[r][1].body), k_client_id) = 2
        /\ Len(decoded_fields(http[r][1].body)) = 8

(***************************************************************************)
(* C14: the request an entry point returns holds, before any param() of    *)
(* the caller, exactly these parameters: exchange_code gives               *)
(* grant_type=authorization_code and code; exchange_password gives         *)
(* grant_type=password, username, password, and then scope (the scopes     *)
(* joined by one space) exactly when the scope list of the client is not   *)
(* empty; exchange_refresh_token gives grant_type=refresh_token and        *)
(* refresh_token.  The scope list is that of the client the entry point    *)
(* was called on.  As long as execute was not called, and until its future *)
(* runs, no request was handed to the transport and there is no result.    *)
(***************************************************************************)
C14_GrantParameters ==
    \A r \in Requests :
        pc[r] # "idle" =>
            LET params == builder[r].params
                own == SubSeq(params, 1, Len(params) - calls[r])
                args == grant[r].args
                grant_type(v) == <<<<"g", "r", "a", "n", "t", "_", "t", "y", "p", "e">>, v>>
            IN  /\ Len(params) >= calls[r]
                /\ grant[r].entry = "exchange_code" =>
                       own = <<grant_type(<<"a", "u", "t", "h", "o", "r", "i", "z", "a", "t", "i", "o", "n", "_", "c", "o", "d", "e">>),
                               <<<<"c", "o", "d", "e">>, args[1]>>>>
                /\ grant[r].entry = "exchange_password" =>
                       own = <<grant_type(<<"p", "a", "s", "s", "w", "o", "r", "d">>),
                               <<<<"u", "s", "e", "r", "n", "a", "m", "e">>, args[1]>>,
                               <<<<"p", "a", "s", "s", "w", "o", "r", "d">>, args[2]>>>>
                             \o (IF grant[r].client.scopes # <<>>
                                 THEN <<<<<<"s", "c", "o", "p", "e">>,
                                         join(grant[r].client.scopes, <<" ">>)>>>>
                                 ELSE <<>>)
                /\ grant[r].entry = "exchange_refresh_token" =>
                       own = <<grant_type(<<"r", "e", "f", "r", "e", "s", "h", "_", "t", "o", "k", "e", "n">>),
                               <<<<"r", "e", "f", "r", "e", "s", "h", "_", "t", "o", "k", "e", "n">>, args[1]>>>>
                /\ pc[r] \in {"built", "called"} =>
                       /\ http[r] = <<>>
                       /\ response[r].outcome = "none"
                       /\ result[r].kind = "None"

C14_Witness ==
    \E r \in Requests :
        /\ pc[r] = "built"
        /\ grant[r].entry = "exchange_password"
        /\ grant[r].client.scopes = <<<<>>>>
        /\ calls[r] = 1
        /\ Len(builder[r].params) = 5
        /\ builder[r].params[4] = <<k_scope, <<>>>>
        /\ http[r] = <<>>

(***************************************************************************)
(* C15: the {:?} text of a secret wrapper (ClientSecret, CsrfToken,        *)
(* PkceCodeVerifierS256, AuthorizationCode, RefreshToken, AccessToken,     *)
(* ResourceOwnerPassword) is the name of its type followed by              *)
(* ([redacted]), whatever it wraps.  The {:?} text of a Client and of a    *)
(* token response holds that text for each secret in it, does not hold     *)
(* the secret, and is the same text for any other secret in its place.     *)
(***************************************************************************)
C15_SecretsAreRedacted ==
    LET redacted(name) == name \o <<"(", "[", "r", "e", "d", "a", "c", "t", "e", "d", "]", ")">>
    IN  /\ log.subject \in SecretTypes =>
               /\ log.text = redacted(log.subject)
               /\ \A s \in Secrets : secret_fmt(log.subject, s) = log.text
        /\ log.subject = <<"C", "l", "i", "e", "n", "t">> =>
               /\ log.value.client_secret.some =>
                      /\ contains(log.text, redacted(<<"C", "l", "i", "e", "n", "t", "S", "e", "c", "r", "e", "t">>))
                      /\ ~contains(log.text, log.value.client_secret.v)
                      /\ \A s \in Secrets :
                             Client_fmt([log.value EXCEPT !.client_secret = Some(s)])
                                 = log.text
               /\ ~log.value.client_secret.some =>
                      ~contains(log.text, <<"(", "[", "r", "e", "d", "a", "c", "t", "e", "d", "]", ")">>)
        /\ log.subject = <<"S", "t", "a", "n", "d", "a", "r", "d", "T", "o", "k", "e", "n", "R", "e", "s", "p", "o", "n", "s", "e">> =>
               /\ contains(log.text, redacted(<<"A", "c", "c", "e", "s", "s", "T", "o", "k", "e", "n">>))
               /\ ~contains(log.text, log.value.access_token)
               /\ log.value.refresh_token.some =>
                      /\ contains(log.text, redacted(<<"R", "e", "f", "r", "e", "s", "h", "T", "o", "k", "e", "n">>))
                      /\ ~contains(log.text, log.value.refresh_token.v)
               /\ \A s1, s2 \in Secrets :
                      StandardTokenResponse_fmt(
                          [log.value EXCEPT !.access_token = s1,
                                            !.refresh_token =
                                                IF @.some THEN Some(s2) ELSE @])
                          = log.text

C15_Witness ==
    /\ log.subject = <<"S", "t", "a", "n", "d", "a", "r", "d", "T", "o", "k", "e", "n", "R", "e", "s", "p", "o", "n", "s", "e">>
    /\ log.value.access_token = <<"h", "u", "n", "t", "e", "r", "2">>
    /\ log.value.refresh_token.some
    /\ log.text = <<"S", "t", "a", "n", "d", "a", "r", "d", "T", "o", "k", "e", "n", "R", "e", "s", "p", "o", "n", "s", "e", " ", "{", " ", "a", "c", "c", "e", "s", "s", "_", "t", "o", "k", "e", "n", ":", " ", "A", "c", "c", "e", "s", "s", "T", "o", "k", "e", "n", "(", "[", "r", "e", "d", "a", "c", "t", "e", "d", "]", ")", ",", " ", "t", "o", "k", "e", "n", "_", "t", "y", "p", "e", ":", " ", "M", "a", "c", ",", " ", "e", "x", "p", "i", "r", "e", "s", "_", "i", "n", ":", " ", "S", "o", "m", "e", "(", "3", "6", "0", "0", ")", ",", " ", "r", "e", "f", "r", "e", "s", "h", "_", "t", "o", "k", "e", "n", ":", " ", "S", "o", "m", "e", "(", "R", "e", "f", "r", "e", "s", "h", "T", "o", "k", "e", "n", "(", "[", "r", "e", "d", "a", "c", "t", "e", "d", "]", ")", ")", ",", " ", "s", "c", "o", "p", "e", "s", ":", " ", "S", "o", "m", "e", "(", "[", "S", "c", "o", "p", "e", "(", "\"", "r", "e", "a", "d", "\"", ")", ",", " ", "S", "c", "o", "p", "e", "(", "\"", "w", "r", "i", "t", "e", "\"", ")", "]", ")", " ", "}">>

(***************************************************************************)
(* C16: token exchanges that run at once on one client do not disturb it   *)
(* or each other.  While an exchange is in progress (its request or the    *)
(* future of its execute is held) no step changes the client, and the      *)
(* client is the one its entry point was called on.  In every state the    *)
(* request an exchange holds is the one its entry point builds from that   *)
(* client, extended by that exchange's own param() calls and by nothing    *)
(* else, and the request it sent is the one execute builds from that.      *)
(***************************************************************************)
C16_SharedConfiguration ==
    /\ [](\A r \in Requests :
             /\ pc[r] \notin {"idle", "done"} => grant[r].client = client
             /\ pc[r] # "idle" =>
                    LET self == grant[r].client
                    IN  /\ builder[r].params = own_builder(self, grant[r]).params
                        /\ builder[r].client_id = self.client_id
                        /\ builder[r].client_secret.some = self.client_secret.some
                        /\ builder[r].client_secret.v = self.client_secret.v
                        /\ builder[r].auth_type = self.auth_type
                        /\ builder[r].token_url.v = self.token_url.v
                        /\ builder[r].redirect_url.some = self.redirect_url.some
                        /\ builder[r].redirect_url.v = self.redirect_url.v
             /\ Sent(r) =>
                    LET self == grant[r].client
                    IN  /\ Len(http[r]) = 1
                        /\ http[r][1].body =
                               build_request(own_builder(self, grant[r])).body
                        /\ http[r][1].authorization.some =
                               (self.auth_type = "BasicAuth")
                        /\ http[r][1].url = url_as_str(self.token_url.v))
    /\ [][(\E r \in Requests : pc[r] \notin {"idle", "done"})
              => client' = client]_vars

C16_Witness ==
    /\ pc["r1"] = "awaiting"
    /\ pc["r2"] = "awaiting"
    /\ grant["r1"].entry = "exchange_code"
    /\ grant["r2"].entry = "exchange_refresh_token"
    /\ Len(grant["r1"].extra) = 1
    /\ Len(grant["r2"].extra) = 1
    /\ grant["r1"].extra # grant["r2"].extra
    /\ client.auth_type = "RequestBody"
    /\ client.redirect_url.some
    /\ http["r1"][1].body # http["r2"][1].body

(***************************************************************************)
(* C17: the client is what the calls that made it say.  Its auth_type is   *)
(* the argument of the last set_auth_type, or BasicAuth if there was none; *)
(* its scopes are the arguments of the add_scope calls in call order;      *)
(* its redirect_url is the argument of the last set_redirect_url, or none; *)
(* client_id, client_secret, auth_url and token_url are the arguments of   *)
(* Client::new.  So no builder method changes a field it does not name.    *)
(***************************************************************************)
C17_ConfigurationFollowsCalls ==
    /\ client.auth_type = IF history.set_auth_type.some
                          THEN history.set_auth_type.v
                          ELSE "BasicAuth"
    /\ client.scopes = history.add_scope
    /\ client.redirect_url.some = history.set_redirect_url.some
    /\ history.set_redirect_url.some =>
           client.redirect_url.v = history.set_redirect_url.v
    /\ client.client_id = history.new[1]
    /\ client.client_secret.some = history.new[2].some
    /\ client.client_secret.v = history.new[2].v
    /\ client.auth_url = history.new[3]
    /\ client.token_url.some = history.new[4].some
    /\ client.token_url.v = history.new[4].v

C17_Witness ==
    /\ Len(history.add_scope) = 2
    /\ history.add_scope[1] # history.add_scope[2]
    /\ client.scopes = history.add_scope
    /\ history.set_auth_type.some
    /\ client.auth_type = "BasicAuth"
    /\ history.set_redirect_url.some
    /\ client.redirect_url.some
    /\ client.client_secret.some
    /\ client.token_url.some

(***************************************************************************)
(* C18: in a success body the token_type is matched without regard to      *)
(* case: a 2xx answer with an access_token and a token_type that spells    *)
(* bearer in any mix of upper and lower case is a token of type Bearer,    *)
(* one that spells mac is a token of type Mac, and with any other text as  *)
(* token_type the whole answer is a Parse error.                           *)
(***************************************************************************)
C18_TokenTypeCaseInsensitive ==
    \A r \in Requests :
        ( /\ Answered(r)
          /\ is_success(response[r].status)
          /\ response[r].body.kind = "json"
          /\ Len(response[r].body.members) = 2
          /\ response[r].body.members[1][1] = k_access_token
          /\ response[r].body.members[1][2].ty = "str"
          /\ response[r].body.members[2][1] = k_token_type
          /\ response[r].body.members[2][2].ty = "str" )
        => LET token_type == response[r].body.members[2][2].s
           IN  IF eq_ignore_ascii_case(token_type, <<"b", "e", "a", "r", "e", "r">>)
               THEN /\ result[r].kind = "Ok"
                    /\ result[r].value.token_type = <<"B", "e", "a", "r", "e", "r">>
                    /\ result[r].value.access_token = response[r].body.members[1][2].s
               ELSE IF eq_ignore_ascii_case(token_type, <<"m", "a", "c">>)
               THEN /\ result[r].kind = "Ok"
                    /\ result[r].value.token_type = <<"M", "a", "c">>
                    /\ result[r].value.access_token = response[r].body.members[1][2].s
               ELSE result[r].kind = "Parse"

C18_Witness ==
    \E r \in Requests :
        /\ Answered(r)
        /\ response[r].status = 201
        /\ response[r].body.kind = "json"
        /\ Len(response[r].body.members) = 2
        /\ response[r].body.members[2] = <<k_token_type, JStr(<<"b", "E", "a", "R", "e", "R">>)>>
        /\ result[r].kind = "Ok"
        /\ result[r].value.token_type = <<"B", "e", "a", "r", "e", "r">>

(***************************************************************************)
(* C19 (as stated): the error code is taken without regard to case: an     *)
(* error answer whose code spells one of the six codes in any mix of       *)
(* upper and lower case (INVALID_GRANT, Invalid_Grant) is a ServerResponse *)
(* with the variant of the lowercase spelling.                             *)
(***************************************************************************)
C19_ErrorCodeCaseInsensitive ==
    \A r \in Requests :
        AnsweredWithErrorCode(r) =>
            LET code == response[r].body.members[1][2].s
                wire == CHOOSE w \in WireErrorCodes : eq_ignore_ascii_case(code, w)
            IN  /\ result[r].kind = "ServerResponse"
                /\ result[r].value.error = ErrorField(VariantOfCode(wire), <<>>)

(***************************************************************************)
(* C19 (amended): the error code is matched as it is written: the exact    *)
(* lowercase snake_case spelling of one of the six codes is a              *)
(* ServerResponse with its variant, and any other spelling of it in upper  *)
(* and lower case is not taken for that code: the answer is no             *)
(* ServerResponse with one of the six variants.                            *)
(***************************************************************************)
C19_ErrorCodeCaseSensitive ==
    \A r \in Requests :
        AnsweredWithErrorCode(r) =>
            LET code == response[r].body.members[1][2].s
            IN  IF code \in WireErrorCodes
                THEN /\ result[r].kind = "ServerResponse"
                     /\ result[r].value.error = ErrorField(VariantOfCode(code), <<>>)
                ELSE result[r].kind = "ServerResponse" =>
                         \A w \in WireErrorCodes :
                             result[r].value.error.variant # VariantOfCode(w)

C19_Witness ==
    \E r \in Requests :
        /\ AnsweredWithErrorCode(r)
        /\ response[r].status = 400
        /\ response[r].body.members[1][2].s = <<"I", "N", "V", "A", "L", "I", "D", "_", "G", "R", "A", "N", "T">>
        /\ result[r].kind # "None"
        /\ \/ result[r].kind # "ServerResponse"
           \/ result[r].value.error.variant # <<"I", "n", "v", "a", "l", "i", "d", "G", "r", "a", "n", "t">>

(***************************************************************************)
(* C20: in a token that was parsed from a success body, scopes is None     *)
(* when the body has no scope key, and None is not a list.  When scope is  *)
(* a string, scopes is Some of the pieces of the string between its        *)
(* spaces, in wire order: the pieces hold no space, there is one more of   *)
(* them than there are spaces, and joined by a space they are the string   *)
(* again; read write gives the list of read and write.                     *)
(***************************************************************************)
C20_ScopesAbsentOrSplit ==
    \A r \in Requests :
        (Answered(r) /\ result[r].kind = "Ok" /\ response[r].body.kind = "json") =>
            LET found == field(response[r].body.members, k_scope)
                scopes == result[r].value.scopes
            IN  /\ found = <<>> => (~scopes.some /\ scopes = None /\ scopes # Some(<<>>))
                /\ (found # <<>> /\ found[1][2].ty = "str") =>
                       LET text == found[1][2].s
                       IN  /\ scopes.some
                           /\ \A i \in DOMAIN scopes.v : " " \notin Range(scopes.v[i])
                           /\ Len(scopes.v) =
                                  Cardinality({i \in DOMAIN text : text[i] = " "}) + 1
                           /\ join(scopes.v, <<" ">>) = text
                           /\ text = <<"r", "e", "a", "d", " ", "w", "r", "i", "t", "e">> => scopes.v = <<<<"r", "e", "a", "d">>, <<"w", "r", "i", "t", "e">>>>

C20_Witness ==
    \E r \in Requests :
        /\ Answered(r)
        /\ result[r].kind = "Ok"
        /\ response[r].body.kind = "json"
        /\ field(response[r].body.members, k_scope) = <<<<k_scope, JStr(<<"w", "r", "i", "t", "e", " ", "r", "e", "a", "d">>)>>>>
        /\ result[r].value.scopes.some
        /\ result[r].value.scopes.v = <<<<"w", "r", "i", "t", "e">>, <<"r", "e", "a", "d">>>>

(***************************************************************************)
(* C21: a 2xx answer whose body is a JSON object without access_token or   *)
(* without token_type is a Parse error that carries the body; no token is  *)
(* made with an empty or default value in its place.  The same holds of a  *)
(* JSON array, which the parser reads as the fields in their order, when   *)
(* it has no first or no second item.  A 2xx answer whose body is an       *)
(* object of just access_token and a token_type that spells bearer or mac  *)
(* is a token with that access_token, expires_in None, refresh_token None  *)
(* and scopes None.                                                        *)
(***************************************************************************)
C21_RequiredFields ==
    \A r \in Requests :
        /\ (Answered(r) /\ is_success(response[r].status)
             /\ response[r].body.kind = "array"
             /\ Len(response[r].body.members) < 2) =>
                /\ result[r].kind = "Parse"
                /\ result[r].bytes = response[r].body
        /\ (Answered(r) /\ is_success(response[r].status)
             /\ response[r].body.kind = "json") =>
                LET members == response[r].body.members
                    access_token == field(members, k_access_token)
                    token_type == field(members, k_token_type)
                IN  /\ (access_token = <<>> \/ token_type = <<>>) =>
                           /\ result[r].kind = "Parse"
                           /\ result[r].bytes = response[r].body
                    /\ ( /\ Len(members) = 2
                         /\ Len(access_token) = 1
                         /\ Len(token_type) = 1
                         /\ access_token[1][2].ty = "str"
                         /\ token_type[1][2].ty = "str"
                         /\ \/ eq_ignore_ascii_case(token_type[1][2].s, <<"b", "e", "a", "r", "e", "r">>)
                            \/ eq_ignore_ascii_case(token_type[1][2].s, <<"m", "a", "c">>) ) =>
                           /\ result[r].kind = "Ok"
                           /\ result[r].value.access_token = access_token[1][2].s
                           /\ ~result[r].value.expires_in.some
                           /\ ~result[r].value.refresh_token.some
                           /\ ~result[r].value.scopes.some

C21_Witness ==
    \E r \in Requests :
        /\ Answered(r)
        /\ response[r].status = 200
        /\ response[r].body.kind = "json"
        /\ response[r].body.members = <<<<k_token_type, JStr(<<"b", "e", "a", "r", "e", "r">>)>>>>
        /\ result[r].kind = "Parse"
        /\ result[r].bytes = response[r].body

(***************************************************************************)
(* C22: generating a PKCE verifier from n random bytes fails its first     *)
(* assertion, and makes no verifier, exactly when n < 32 or n > 96.  For   *)
(* every n from 32 to 96 a verifier is made whose text has ceil(4n/3)      *)
(* characters, which is at least 43 and at most 128, so the assertion on   *)
(* the length of the text never fails.  new_random takes n = 32.           *)
(***************************************************************************)
C22_PkceVerifierLength ==
    pkce.entry # "" =>
        LET n == pkce.num_bytes
            ceil == (4 * n + 2) \div 3
        IN  /\ (pkce.outcome = "panic") <=> (n < 32 \/ n > 96)
            /\ pkce.outcome = "panic" => (pkce.assertion = 1 /\ pkce.len = 0)
            /\ (n >= 32 /\ n <= 96) =>
                   /\ pkce.outcome = "verifier"
                   /\ 3 * pkce.len >= 4 * n
                   /\ 3 * (pkce.len - 1) < 4 * n
                   /\ pkce.len = ceil
                   /\ pkce.len >= 43
                   /\ pkce.len <= 128
            /\ pkce.entry = "new_random" =>
                   (n = 32 /\ pkce.outcome = "verifier" /\ pkce.len = 43)

C22_Witness ==
    /\ pkce.entry = "new_random_len"
    /\ pkce.num_bytes = 96
    /\ pkce.outcome = "verifier"
    /\ pkce.len = 128

(***************************************************************************)
(* C23: execute returns a token only when the transport delivered a status *)
(* from 200 to 299 and a body that has an access_token and a token_type (a *)
(* JSON object with these keys, or a JSON array with them as its first     *)
(* items), and the token has that access_token.  With any other status the *)
(* result is an error (ServerResponse, Parse or Other) whatever the body   *)
(* is, a well-formed token included.  A 2xx answer is never a              *)
(* ServerResponse, and when its body is a well-formed error response (an   *)
(* object or an array that holds no token) it is a Parse error that        *)
(* carries the body.                                                       *)
(***************************************************************************)
C23_SuccessOnlyOn2xxToken ==
    \A r \in Requests :
        pc[r] = "done" =>
            LET status == response[r].status
                body == response[r].body
                success == status >= 200 /\ status < 300
            IN  /\ result[r].kind = "Ok" =>
                       /\ response[r].outcome = "delivered"
                       /\ success
                       /\ body.kind \in {"json", "array"}
                       /\ body.kind = "json" =>
                              /\ Len(field(body.members, k_access_token)) = 1
                              /\ Len(field(body.members, k_token_type)) = 1
                              /\ result[r].value.access_token =
                                     field(body.members, k_access_token)[1][2].s
                       /\ body.kind = "array" =>
                              /\ Len(body.members) >= 2
                              /\ result[r].value.access_token = body.members[1].s
                /\ (response[r].outcome = "delivered" /\ ~success) =>
                       result[r].kind \in {"ServerResponse", "Parse", "Other"}
                /\ (response[r].outcome = "delivered" /\ success) =>
                       result[r].kind # "ServerResponse"
                /\ (response[r].outcome = "delivered" /\ success
                     /\ \/ /\ WellFormedError(body)
                           /\ field(body.members, k_access_token) = <<>>
                        \/ WellFormedErrorArray(body)) =>
                       /\ result[r].kind = "Parse"
                       /\ result[r].bytes = body

C23_Witness ==
    \E r \in Requests :
        /\ Answered(r)
        /\ response[r].status = 400
        /\ response[r].body = JsonBody(<<<<k_access_token, JStr(<<"a", "b", "c">>)>>,
                                          <<k_token_type, JStr(<<"b", "e", "a", "r", "e", "r">>)>>>>)
        /\ result[r].kind = "Parse"

(***************************************************************************)
(* C24: the request of exchange_client_credentials is                      *)
(* grant_type=client_credentials followed, exactly when the scope list of  *)
(* the client is not empty, by the scopes joined by one space under the    *)
(* key scopes; the request of exchange_password has them under the key     *)
(* scope, under the same condition; the requests of exchange_code and      *)
(* exchange_refresh_token have neither key.  The body that is sent has     *)
(* these keys as often as the request has them.  The scope list is that of *)
(* the client the entry point was called on.                               *)
(***************************************************************************)
C24_ScopeKeyByGrant ==
    \A r \in Requests :
        pc[r] # "idle" =>
            LET params == builder[r].params
                own == SubSeq(params, 1, Len(params) - calls[r])
                key_scope == <<"s", "c", "o", "p", "e">>
                key_scopes == <<"s", "c", "o", "p", "e", "s">>
                joined == join(grant[r].client.scopes, <<" ">>)
                configured == grant[r].client.scopes # <<>>
                entry == grant[r].entry
                scope_count == IF entry = "exchange_password" /\ configured
                               THEN 1 ELSE 0
                scopes_count == IF entry = "exchange_client_credentials" /\ configured
                                THEN 1 ELSE 0
            IN  /\ ParamCount(own, key_scope) = scope_count
                /\ ParamCount(own, key_scopes) = scopes_count
                /\ entry = "exchange_client_credentials" =>
                       own = <<<<<<"g", "r", "a", "n", "t", "_", "t", "y", "p", "e">>, <<"c", "l", "i", "e", "n", "t", "_", "c", "r", "e", "d", "e", "n", "t", "i", "a", "l", "s">>>>>>
                                 \o (IF configured THEN <<<<key_scopes, joined>>>> ELSE <<>>)
                /\ (entry = "exchange_password" /\ configured) =>
                       own[Len(own)] = <<key_scope, joined>>
                /\ Sent(r) =>
                       LET fields == decoded_fields(http[r][1].body)
                       IN  /\ KeyCount(fields, key_scope) = scope_count
                           /\ KeyCount(fields, key_scopes) = scopes_count
                           /\ \A i \in DOMAIN fields :
                                  fields[i][1] \in {key_scope, key_scopes}
                                      => fields[i][2] = joined

C24_Witness ==
    \E r \in Requests :
        /\ Sent(r)
        /\ grant[r].entry = "exchange_client_credentials"
        /\ grant[r].client.scopes = <<<<"r", "e", "a", "d">>, <<"w", "r", "i", "t", "e">>>>
        /\ \E i \in DOMAIN decoded_fields(http[r][1].body) :
               decoded_fields(http[r][1].body)[i] = <<<<"s", "c", "o", "p", "e", "s">>, <<"r", "e", "a", "d", " ", "w", "r", "i", "t", "e">>>>
        /\ contains(http[r][1].body, <<"s", "c", "o", "p", "e", "s", "=", "r", "e", "a", "d", "+", "w", "r", "i", "t", "e">>)

====
